---- MODULE Spec2Model ----
(***************************************************************************)
(* Session / notification-channel / trace workflow of the handit.ai VS     *)
(* Code extension: the panel host (LoginPanelProvider), the API client     *)
(* (ApiService) and the webview's trace state (useChat, ControlPanel).     *)
(* Host and webview are two event loops that talk only through posted      *)
(* messages; every action below is one run-to-completion step of one       *)
(* handler, cut at the awaits of the source.                               *)
(***************************************************************************)
EXTENDS Integers, Sequences, FiniteSets, TLC

\* ------------------------------------------------------------------ bounds
MaxCmds == 2          \* login/signup commands the host receives
MaxTrackEvents == 2   \* run-completed events with action 'track' the server emits
MaxAuxCalls == 1      \* getProviders / createIntegrationToken commands received
MaxQueue == 2         \* host -> webview messages in flight
MaxEmailLen == 5      \* characters typed into the email field
MaxPasswordLen == 7   \* characters typed into the password field
MaxApplyCalls == 1    \* apply-insights calls in flight
MaxInsights == 2      \* total_insights of an insights response
MaxDiffOps == 3       \* diff / accept / deny / apply commands and file edits

CmdIds == 1..MaxCmds

\* ------------------------------------------------------------ input sets
Tokens == {"tokA", "tokB"}          \* tokens a login/signup response may carry
NoToken == "noToken"                \* response.data.token absent
NoSession == <<>>                   \* no session id (undefined)
ErrKinds == {"ECONNREFUSED", "s401"}            \* error.code / error.response.status
RunPayloads == {"track", "other", "norun"}      \* data.run.action, or data.run missing
ServerEvents == {"subscribed", "unsubscribed", "run-completed", "session-updated"}

Chars == {"u", "@", ".", " "}       \* a word character, '@', '.', white space
MinPasswordLength == 6              \* password.length < 6 is rejected

\* The credential written into the source.
HARDCODED_TOKEN == "2f3bcfaf11d2d909ed90d2ec706114e15b15a7f5642af4f9a385266c4d210f56"

\* --------------------------------------------------------------- ApiService
NoAuth == <<>>      \* defaults.headers.common['Authorization'] undefined

\* setAuthToken: the header value is `Bearer ${token}`.
setAuthToken(token) == <<"Bearer", token>>

\* A request sent through the axios instance carries the default header.
Request(endpoint, auth) == [ep |-> endpoint, auth |-> auth]

\* A request whose URL carries a session id.
SessionRequest(endpoint, auth, sessionId) == [ep |-> endpoint, auth |-> auth, sid |-> sessionId]

\* ApiService.applySessionInsights(sessionId), called by ControlPanel.
ApplyInsightsEndpoint == "POST /v1/codegpt/sessions/id/apply-insights"

\* establishSocketConnection reads the Authorization header into authHeader
\* and then builds the socket credentials from the constant AUTH_TOKEN.
SocketAuthToken(authHeader) == HARDCODED_TOKEN

\* io(SOCKET_URL, {auth: {token: AUTH_TOKEN}, ..., forceNew: true}): a new socket
\* on every call; othersOpen is the number of earlier sockets still open then.
NewSocket(owner, sessionId, authHeader, othersOpen) ==
    [owner |-> owner, sessionId |-> sessionId, authHeader |-> authHeader,
     token |-> SocketAuthToken(authHeader), state |-> "connecting",
     othersOpen |-> othersOpen]

\* The listeners establishSocketConnection registers with socket.on, in order.
RegisteredListeners ==
    << "connect", "disconnect", "connect_error", "subscribed", "unsubscribed",
       "run-completed", "session-updated", "error",
       "subscribed", "unsubscribed", "run-completed", "session-updated" >>

\* An emitter calls every listener registered for the event, once each.
ListenerCount(ev) ==
    Cardinality({i \in 1..Len(RegisteredListeners) : RegisteredListeners[i] = ev})

\* -------------------------------------------------------- LoginPanelProvider
Toast(sev, cause) == [sev |-> sev, cause |-> cause]
Msg(command, success, data) == [command |-> command, success |-> success, data |-> data]

LoginErrorMessage(err) ==
    CASE err = "ECONNREFUSED" -> "Cannot connect to Handit.ai service. Please ensure it's running."
      [] err = "s401" -> "Invalid email or password."
      [] err = "s400" -> "Invalid login data. Please check your information."
      [] err \in {"s409", "s500"} -> "Login error: status"
      [] OTHER -> "Failed to login"

SignupErrorMessage(err) ==
    CASE err = "ECONNREFUSED" -> "Cannot connect to Handit.ai service. Please ensure it's running."
      [] err = "s400" -> "Invalid signup data. Please check your information."
      [] err = "s409" -> "Account already exists with this email."
      [] err \in {"s401", "s500"} -> "Signup error: status"
      [] OTHER -> "Failed to create account"

VARIABLES
    hostAuth,       \* Authorization header of the host's ApiService singleton
    webAuth,        \* Authorization header of the ApiService bundled in the webview
    cmd,            \* per login/signup command: kind, position, what it posted
    sockets,        \* sockets created by io(), in creation order
    aux,            \* getProviders / createIntegrationToken requests in flight
    auxCalls,       \* number of such commands received
    toWebview,      \* host -> webview messages in flight
    toHost,         \* webview -> host messages in flight
    fixSession,     \* useChat: traceCount, runs, sessionId
    messages,       \* useChat: chat messages (0 the greeting, n "Trace n received")
    showEvaluating, \* ControlPanel: evaluation phase reached
    insightsTimer,  \* ControlPanel: the 3 s timer before the insights call is pending
    insightsCalls,  \* insights requests awaiting their response
    trackDelivered, \* run-completed 'track' events the server has emitted
    loginToken,     \* token carried by the latest login/signup response that had one
    toasts,         \* toasts shown by the last step
    failure,        \* the failure the last step met or handled ("none" if none)
    notices,        \* failure notices the last step forwarded to the other side
    reqs,           \* HTTP requests sent by the last step
    dispatch,       \* the event or command the last step handled, and what it did
    view,           \* App: 'auth' | 'ai-models' | 'control-panel'
    form,           \* LoginForm: email, password, isLoading, errors
    manager,        \* AIModelsManager: selectedProvider, selectedModel, apiKey, ...
    win,            \* the webview's window: vscode, the acquire guards, acquire calls
    streamingComplete, \* ControlPanel: the insights have been streamed
    applyCalls,     \* apply-insights requests awaiting their response
    panel,          \* ControlPanel: the rest of its useState values
    timers,         \* ControlPanel: running intervals and pending timeouts
    stored,         \* provider: currentOriginalPrompt, currentOptimizedPrompt, currentDiffUri
    statusBar,      \* Accept/Deny status bar pairs shown
    files,          \* workspace files: document text and text on disk
    diffSession,    \* the diff session as the user sees it: none, open, accepted, denied
    ops,            \* diff / accept / apply handlers waiting at an await
    tabs,           \* editor tabs open in the window
    opCount         \* diff, accept, apply and edit operations so far

vars == << hostAuth, webAuth, cmd, sockets, aux, auxCalls, toWebview, toHost,
           fixSession, messages, showEvaluating, insightsTimer, insightsCalls,
           trackDelivered, loginToken, toasts, failure, notices, reqs, dispatch,
           view, form, manager, win, streamingComplete, applyCalls, panel, timers,
           stored, statusBar, files, diffSession, ops, tabs, opCount >>

uiVars == << view, form, manager, win, streamingComplete, applyCalls, panel, timers >>
diffVars == << stored, statusBar, files, diffSession, ops, tabs, opCount >>

hostVars == << hostAuth, cmd, sockets, aux, auxCalls >>
webVars == << webAuth, fixSession, messages, showEvaluating, insightsTimer, insightsCalls >>

NoDispatch == [event |-> "none", run |-> "norun", calls |-> 0, posts |-> 0, nOpen |-> 0]

\* What one step shows: toasts, the failure met, notices forwarded, requests, dispatch.
Observe(t, f, n, r, d) ==
    /\ toasts' = t
    /\ failure' = f
    /\ notices' = n
    /\ reqs' = r
    /\ dispatch' = d

\* ControlPanel's useState initial values (showEvaluating and streamingComplete
\* are variables of their own).
InitPanel ==
    [active |-> "start", foundCount |-> 0, evaluationComplete |-> FALSE,
     showStreaming |-> FALSE, streamingText |-> <<>>,
     showApplyFixesProcessing |-> FALSE, showApplyFixesStreaming |-> FALSE,
     applyFixesStreamingComplete |-> FALSE, applyFixesStreamingText |-> <<>>,
     optimizedPromptContent |-> <<>>, originalPromptContent |-> <<>>,
     autoDiffTriggered |-> FALSE]

\* No interval runs and no timeout is pending. counters: the 500 ms found-counter
\* intervals; delays: the 1 s timeouts before the insights are streamed;
\* streams / fixStreams: the 12 ms and 8 ms reveal intervals, each with its
\* closure (the full text and currentIndex); started / fixStarted: the full
\* text of the reveal started last; applyRequests: the apply-insights calls made
\* so far; insightsFor: the session ids of the insights calls made so far.
NoTimers ==
    [counters |-> <<>>, delays |-> <<>>, streams |-> <<>>, fixStreams |-> <<>>,
     started |-> <<>>, fixStarted |-> <<>>, applyRequests |-> 0, insightsFor |-> <<>>]

\* The window of a webview whose HTML was just set: acquireVsCodeApi is a
\* function inside VS Code and absent in a browser; nothing is acquired yet.
FreshWindow(hasAcquire) ==
    [hasAcquire |-> hasAcquire, vscode |-> FALSE, cachedVsApi |-> FALSE,
     acquired |-> FALSE, calls |-> 0, booted |-> FALSE]

\* acquireVsCodeApi(): the first call of a webview returns the API, a later
\* call throws.
AcquireReturns(w) == w.calls = 0

\* Variant of the inline script: the API is kept in a local constant only.
BootstrapAssigns_localOnly(returned) == FALSE

\* window.vscode = acquireVsCodeApi(): window.vscode holds what was returned.
BootstrapAssigns(returned) == returned

\* The inline script of the panel's HTML, run before the bundle:
\* if (!window.vscode && typeof acquireVsCodeApi === 'function')
\*     window.vscode = acquireVsCodeApi();   inside try/catch.
BootstrapScript(w) ==
    IF ~w.vscode /\ w.hasAcquire
    THEN [w EXCEPT !.calls = @ + 1, !.vscode = BootstrapAssigns(AcquireReturns(w)),
                   !.booted = TRUE]
    ELSE [w EXCEPT !.booted = TRUE]

\* The window once the inline script has run inside VS Code.
BootedWindow == BootstrapScript(FreshWindow(TRUE))

\* useVSCode's safeGetVsCodeApi: window.vscode, else the module's cachedVsApi,
\* else acquireVsCodeApi() kept in both; a throw is caught and window.vscode
\* returned. window: the window afterwards; api: whether an API is returned.
SafeGetVsCodeApi(w) ==
    IF w.vscode \/ w.cachedVsApi THEN [window |-> w, api |-> TRUE]
    ELSE IF w.hasAcquire
    THEN IF AcquireReturns(w)
         THEN [window |-> [w EXCEPT !.calls = @ + 1, !.cachedVsApi = TRUE, !.vscode = TRUE],
               api |-> TRUE]
         ELSE [window |-> [w EXCEPT !.calls = @ + 1], api |-> w.vscode]
    ELSE [window |-> w, api |-> FALSE]

\* ControlPanel's getVSCodeApi: window.vscode, else acquireVsCodeApi() once
\* behind window.__handit_vscode_acquired; a throw is caught and undefined
\* returned.
GetVSCodeApi(w) ==
    IF w.vscode THEN [window |-> w, api |-> TRUE]
    ELSE IF w.hasAcquire
    THEN IF ~w.acquired
         THEN IF AcquireReturns(w)
              THEN [window |-> [w EXCEPT !.calls = @ + 1, !.vscode = TRUE, !.acquired = TRUE],
                    api |-> TRUE]
              ELSE [window |-> [w EXCEPT !.calls = @ + 1], api |-> FALSE]
         ELSE [window |-> w, api |-> w.vscode]
    ELSE [window |-> w, api |-> FALSE]

\* api.postMessage(message) if an API was returned; otherwise the message does
\* not reach the host.
Posted(got, queue, message) == IF got.api THEN Append(queue, message) ELSE queue

\* AIModelsManager's useState initial values; clicked: the tokenData of the
\* last createIntegrationToken it posted.
NoProvider == "null"
InitManager ==
    [selectedProvider |-> NoProvider, selectedModel |-> "", apiKey |-> "",
     isConnecting |-> FALSE, isLoadingProviders |-> TRUE,
     clicked |-> [provider |-> NoProvider, model |-> "", apiKey |-> ""]]

\* LoginForm's useState initial values.
InitForm == [email |-> <<>>, password |-> <<>>, isLoading |-> FALSE, errors |-> {}]

\* The provider's stored prompts and diff uri; null is <<>> / "nullUri".
NoPrompt == <<>>
NoUri == "nullUri"
NoStored == [original |-> NoPrompt, optimized |-> NoPrompt, diffUri |-> NoUri]

\* The workspace: two files, the first with the text "a" twice.
Files == {"f1", "f2"}
FileOf(text) == [doc |-> text, disk |-> text]
InitFiles == [f \in Files |-> IF f = "f1" THEN FileOf(<<"a", "a">>) ELSE FileOf(<<"b">>)]

\* Prompts the webview sends, as sequences of words.
Prompts == {<<"a">>, <<"b">>, <<"a", "a">>}

\* Replacement texts with a '$' in them.
ReplacementTexts == {<<"b">>, <<"$", "&">>, <<"b", "$", "$">>, <<"$", "b">>}

\* A handler of the provider waiting at an await, with its locals.
IdleOp == [pc |-> "idle", orig |-> NoPrompt, opt |-> NoPrompt, target |-> NoUri]
\* _handleBulkApplyTextReplace not running; while it runs: the files of findFiles
\* still to visit, the counter updated, and the files it has edited and saved.
IdleBulk == [pc |-> "idle", searchText |-> NoPrompt, replacementText |-> NoPrompt,
             todo |-> {}, updated |-> 0, saved |-> {}]

\* registrations: the content providers registered and not yet disposed, each
\* with its scheme and whether its 30 s dispose timeout is set.
IdleOps == [diff |-> IdleOp, accept |-> IdleOp, apply |-> IdleOp, bulk |-> IdleBulk,
            preview |-> IdleOp, registrations |-> <<>>]

IdleCmd == [kind |-> "none", pc |-> "idle", log |-> <<>>]

Init ==
    /\ hostAuth = NoAuth
    /\ webAuth = NoAuth
    /\ cmd = [c \in CmdIds |-> IdleCmd]
    /\ sockets = <<>>
    /\ aux = [k \in {"providers", "integrationToken"} |-> "idle"]
    /\ auxCalls = 0
    /\ toWebview = <<>>
    /\ toHost = <<>>
    /\ fixSession = [active |-> FALSE, traceCount |-> 0, runs |-> <<>>, sessionId |-> NoSession]
    /\ messages = <<0>>
    /\ showEvaluating = FALSE
    /\ insightsTimer = FALSE
    /\ insightsCalls = 0
    /\ trackDelivered = 0
    /\ loginToken = NoToken
    /\ toasts = <<>>
    /\ failure = "none"
    /\ notices = 0
    /\ reqs = <<>>
    /\ dispatch = NoDispatch
    /\ view = "auth"
    /\ form = InitForm
    /\ manager = InitManager
    /\ win = BootedWindow
    /\ streamingComplete = FALSE
    /\ applyCalls = 0
    /\ panel = InitPanel
    /\ timers = NoTimers
    /\ stored = NoStored
    /\ statusBar = 0
    /\ files = InitFiles
    /\ diffSession = "none"
    /\ ops = IdleOps
    /\ tabs = {}
    /\ opCount = 0

\* ------------------------------------------------------------------ helpers
OpenSockets == {i \in 1..Len(sockets) : sockets[i].state # "closed"}

\* The backend issues a fresh id for every session it creates.
SessionIdOf(c) == <<"session", c>>

\* Room for n more messages on the way to the webview.
Room(n) == Len(toWebview) + n <= MaxQueue

Logged(c, what) == [cmd EXCEPT ![c].log = Append(@, what)]

RECURSIVE Repeat(_, _)
Repeat(x, n) == IF n = 0 THEN <<>> ELSE <<x>> \o Repeat(x, n - 1)

ResponseCommand(kind) == IF kind = "login" THEN "loginResponse" ELSE "signupResponse"

AuthErrorMessage(kind, err) ==
    IF kind = "login" THEN LoginErrorMessage(err) ELSE SignupErrorMessage(err)

\* ------------------------------------------------- _handleLogin / _handleSignup
\* The host receives {command: 'login' | 'signup'}: the handler runs up to its
\* first await, the auth request.
StartAuth(c, kind, endpoint) ==
    /\ cmd[c].pc = "idle"
    /\ \A d \in CmdIds : d < c => cmd[d].pc # "idle"
    /\ cmd' = [cmd EXCEPT ![c] = [kind |-> kind, pc |-> "awaitAuth", log |-> <<>>]]
    /\ Observe(<<>>, "none", 0, <<Request(endpoint, hostAuth)>>, NoDispatch)
    /\ UNCHANGED << hostAuth, sockets, aux, auxCalls, toWebview, toHost,
                    trackDelivered, loginToken >>
    /\ UNCHANGED webVars
    /\ UNCHANGED uiVars
    /\ UNCHANGED diffVars

HandleLogin(c) == StartAuth(c, "login", "POST /auth/login")

HandleSignup(c) == StartAuth(c, "signup", "POST /auth/signup-company")

\* The auth request resolved: the token, if any, is stored, the success response is
\* posted, and _createCodeGPTSession sends its request (the next await).
AuthResolve(c, tok) ==
    /\ cmd[c].pc = "awaitAuth"
    /\ Room(1)
    /\ hostAuth' = IF tok # NoToken THEN setAuthToken(tok) ELSE hostAuth
    /\ loginToken' = IF tok # NoToken THEN tok ELSE loginToken
    /\ toWebview' = Append(toWebview, Msg(ResponseCommand(cmd[c].kind), TRUE, "data"))
    /\ cmd' = [Logged(c, "respOk") EXCEPT ![c].pc = "awaitSession"]
    /\ Observe(<<Toast("info", "authSuccess")>>, "none", 0,
               <<Request("POST /v1/codegpt/sessions", hostAuth')>>, NoDispatch)
    /\ UNCHANGED << sockets, aux, auxCalls, toHost, trackDelivered >>
    /\ UNCHANGED webVars
    /\ UNCHANGED uiVars
    /\ UNCHANGED diffVars

\* The catch block of _handleLogin / _handleSignup: the failure response it posts.
AuthCatchPosts(kind, err) ==
    << Msg(ResponseCommand(kind), FALSE, AuthErrorMessage(kind, err)) >>

AuthReject(c, err) ==
    /\ cmd[c].pc = "awaitAuth"
    /\ Room(1)
    /\ toWebview' = toWebview \o AuthCatchPosts(cmd[c].kind, err)
    /\ cmd' = [Logged(c, "respFail") EXCEPT ![c].pc = "done"]
    /\ Observe(<<Toast("error", "authFailed")>>, cmd[c].kind, 0, <<>>, NoDispatch)
    /\ UNCHANGED << hostAuth, sockets, aux, auxCalls, toHost, trackDelivered, loginToken >>
    /\ UNCHANGED webVars
    /\ UNCHANGED uiVars
    /\ UNCHANGED diffVars

\* ------------------------------------------------------- _createCodeGPTSession
\* What _createCodeGPTSession does once createCodeGPTSession settles: on success it
\* posts sessionCreated and goes on to _establishSocketConnection; on failure its
\* own catch block shows a warning and swallows the error.
\* Variant: the catch block of _createCodeGPTSession rethrows.
CreateSessionOutcome_rethrows(ok) ==
    IF ok THEN [post |-> TRUE, open |-> TRUE, caught |-> TRUE]
          ELSE [post |-> FALSE, open |-> FALSE, caught |-> FALSE]

\* Variant: the channel is opened whether or not the session was created.
CreateSessionOutcome_opensAnyway(ok) ==
    IF ok THEN [post |-> TRUE, open |-> TRUE, caught |-> TRUE]
          ELSE [post |-> FALSE, open |-> TRUE, caught |-> TRUE]

CreateSessionOutcome(ok) ==
    IF ok THEN [post |-> TRUE, open |-> TRUE, caught |-> TRUE]
          ELSE [post |-> FALSE, open |-> FALSE, caught |-> TRUE]

\* ioThrows: io() threw inside apiService.establishSocketConnection, which
\* _establishSocketConnection catches and reports as a warning.
SessionSettle(c, ok, sid, err, ioThrows) ==
    LET o == CreateSessionOutcome(ok)
        opens == o.open /\ ~ioThrows
        estFail == o.open /\ ioThrows
        rethrown == ~ok /\ ~o.caught
        posted == (IF o.post THEN <<Msg("sessionCreated", TRUE, sid)>> ELSE <<>>)
                  \o (IF rethrown THEN AuthCatchPosts(cmd[c].kind, err) ELSE <<>>)
        logged == (IF o.post THEN <<"sessionCreated">> ELSE <<>>)
                  \o (IF opens THEN <<"socketOpened">> ELSE <<>>)
                  \o (IF rethrown THEN <<"respFail">> ELSE <<>>)
        shown == (IF ok THEN <<Toast("info", "sessionCreated")>>
                  ELSE IF o.caught THEN <<Toast("warning", "sessionFailed")>>
                  ELSE <<Toast("error", "authFailed")>>)
                 \o (IF estFail THEN <<Toast("warning", "socketEstablishFailed")>> ELSE <<>>)
    IN  /\ cmd[c].pc = "awaitSession"
        /\ Room(Len(posted))
        /\ cmd' = [cmd EXCEPT ![c].log = @ \o logged, ![c].pc = "done"]
        /\ toWebview' = toWebview \o posted
        /\ sockets' = IF opens
                      THEN Append(sockets, NewSocket(c, sid, hostAuth, Cardinality(OpenSockets)))
                      ELSE sockets
        /\ Observe(shown,
                   IF ~ok THEN "session" ELSE IF estFail THEN "socketEstablish" ELSE "none",
                   0, <<>>, NoDispatch)
        /\ UNCHANGED << hostAuth, aux, auxCalls, toHost, trackDelivered, loginToken >>
        /\ UNCHANGED webVars
        /\ UNCHANGED uiVars
        /\ UNCHANGED diffVars

SessionResolve(c, ioThrows) == SessionSettle(c, TRUE, SessionIdOf(c), "none", ioThrows)

SessionReject(c, err) == SessionSettle(c, FALSE, NoSession, err, FALSE)

\* -------------------------------------------- socket events (host event loop)
SetSocketState(i, st) == sockets' = [sockets EXCEPT ![i].state = st]

HostQuiet == UNCHANGED << hostAuth, cmd, aux, auxCalls, toHost, loginToken >>

\* 'connect': subscribe-company is emitted and onConnect shows an information toast.
SocketConnect(i) ==
    /\ i \in 1..Len(sockets)
    /\ sockets[i].state = "connecting"
    /\ SetSocketState(i, "connected")
    /\ Observe(<<Toast("info", "socketConnected")>>, "none", 0, <<>>, NoDispatch)
    /\ HostQuiet
    /\ UNCHANGED << toWebview, trackDelivered >>
    /\ UNCHANGED webVars
    /\ UNCHANGED uiVars
    /\ UNCHANGED diffVars

\* 'connect_error': onConnectError shows an error toast; the client keeps trying.
SocketConnectError(i) ==
    /\ i \in 1..Len(sockets)
    /\ sockets[i].state = "connecting"
    /\ Observe(<<Toast("error", "connectError")>>, "connectError", 0, <<>>, NoDispatch)
    /\ HostQuiet
    /\ UNCHANGED << sockets, toWebview, trackDelivered >>
    /\ UNCHANGED webVars
    /\ UNCHANGED uiVars
    /\ UNCHANGED diffVars

\* 'disconnect': onDisconnect shows a warning. The client reconnects by itself
\* unless the server closed the socket.
SocketDisconnect(i, byServer) ==
    /\ i \in 1..Len(sockets)
    /\ sockets[i].state = "connected"
    /\ SetSocketState(i, IF byServer THEN "closed" ELSE "connecting")
    /\ Observe(<<Toast("warning", "socketDisconnected")>>, "none", 0, <<>>, NoDispatch)
    /\ HostQuiet
    /\ UNCHANGED << toWebview, trackDelivered >>
    /\ UNCHANGED webVars
    /\ UNCHANGED uiVars
    /\ UNCHANGED diffVars

\* 'error': onError shows an error toast.
SocketError(i) ==
    /\ i \in 1..Len(sockets)
    /\ sockets[i].state # "closed"
    /\ Observe(<<Toast("error", "socketError")>>, "socketError", 0, <<>>, NoDispatch)
    /\ HostQuiet
    /\ UNCHANGED << sockets, toWebview, trackDelivered >>
    /\ UNCHANGED webVars
    /\ UNCHANGED uiVars
    /\ UNCHANGED diffVars

\* onRunCompleted (LoginPanelProvider): a 'track' run is posted to the webview as
\* traceReceived; every call shows an information toast.
OnRunCompletedPosts(run) ==
    IF run.action = "track" THEN <<Msg("traceReceived", TRUE, run)>> ELSE <<>>

\* data.run of a notification: its action and the identity the server gave it
\* (action "norun": the notification has no run).
RunOf(action, id) == [action |-> action, id |-> id]

RECURSIVE Flatten(_)
Flatten(ss) == IF ss = <<>> THEN <<>> ELSE Head(ss) \o Flatten(Tail(ss))

\* The server emits one event on socket i: every listener registered for it runs,
\* and each of them calls the caller's callback.
ServerEvent(i, ev, run) ==
    LET n == ListenerCount(ev)
        isRun == ev = "run-completed"
        data == RunOf(run, IF run = "track" THEN trackDelivered + 1 ELSE 0)
        posted == IF isRun THEN Flatten(Repeat(OnRunCompletedPosts(data), n)) ELSE <<>>
    IN  /\ i \in 1..Len(sockets)
        /\ sockets[i].state = "connected"
        /\ isRun \/ run = "norun"
        /\ Room(Len(posted))
        /\ (isRun /\ run = "track") => trackDelivered < MaxTrackEvents
        /\ trackDelivered' = IF isRun /\ run = "track" THEN trackDelivered + 1
                             ELSE trackDelivered
        /\ toWebview' = toWebview \o posted
        /\ Observe(IF isRun THEN Repeat(Toast("info", "runCompleted"), n) ELSE <<>>,
                   "none", 0, <<>>,
                   [event |-> ev, run |-> run, calls |-> n, posts |-> Len(posted),
                    nOpen |-> Cardinality(OpenSockets)])
        /\ HostQuiet
        /\ UNCHANGED sockets
        /\ UNCHANGED webVars
        /\ UNCHANGED uiVars
        /\ UNCHANGED diffVars

\* ------------------------------ _handleGetProviders / _handleCreateIntegrationToken
\* apiService.getProviders() and apiService.createIntegrationToken(): requests sent
\* through the same axios instance.
ApiAuxRequest(kind, auth) ==
    Request(IF kind = "providers" THEN "GET /providers" ELSE "POST /integration-tokens", auth)

\* The host receives {command: 'getProviders' | 'createIntegrationToken'}: the
\* handler first calls setAuthToken with the credential written in the source,
\* then sends the request.
HandleAux(kind) ==
    /\ aux[kind] = "idle"
    /\ auxCalls < MaxAuxCalls
    /\ auxCalls' = auxCalls + 1
    /\ hostAuth' = setAuthToken(HARDCODED_TOKEN)
    /\ aux' = [aux EXCEPT ![kind] = "await"]
    /\ Observe(<<>>, "none", 0, <<ApiAuxRequest(kind, hostAuth')>>, NoDispatch)
    /\ UNCHANGED << cmd, sockets, toWebview, toHost, trackDelivered, loginToken >>
    /\ UNCHANGED webVars
    /\ UNCHANGED uiVars
    /\ UNCHANGED diffVars

HandleGetProviders == HandleAux("providers")

HandleCreateIntegrationToken == HandleAux("integrationToken")

AuxCommand(kind) == IF kind = "providers" THEN "getProviders" ELSE "createIntegrationToken"

\* The request settled: the handler posts {command, success} and shows no toast.
AuxSettle(kind, ok) ==
    /\ aux[kind] = "await"
    /\ Room(1)
    /\ aux' = [aux EXCEPT ![kind] = "idle"]
    /\ toWebview' = Append(toWebview, Msg(AuxCommand(kind), ok, kind))
    /\ Observe(<<>>, IF ok THEN "none" ELSE kind, IF ok THEN 0 ELSE 1, <<>>, NoDispatch)
    /\ UNCHANGED << hostAuth, cmd, sockets, auxCalls, toHost, trackDelivered, loginToken >>
    /\ UNCHANGED webVars
    /\ UNCHANGED uiVars
    /\ UNCHANGED diffVars

\* The host receives {command: 'showErrorMessage'} from the webview.
HostShowErrorMessage ==
    /\ toHost # <<>>
    /\ Head(toHost).command = "showErrorMessage"
    /\ toHost' = Tail(toHost)
    /\ Observe(<<Toast("error", "webviewError")>>, Head(toHost).data, 0, <<>>, NoDispatch)
    /\ UNCHANGED << hostAuth, cmd, sockets, aux, auxCalls, toWebview, trackDelivered,
                    loginToken >>
    /\ UNCHANGED webVars
    /\ UNCHANGED uiVars
    /\ UNCHANGED diffVars

\* The host receives a command its switch has no case for: nothing happens.
HostUnhandledCommand ==
    /\ toHost # <<>>
    /\ Head(toHost).command \in {"configureAI", "clearChat"}
    /\ toHost' = Tail(toHost)
    /\ Observe(<<>>, "none", 0, <<>>, NoDispatch)
    /\ UNCHANGED << hostAuth, cmd, sockets, aux, auxCalls, toWebview, trackDelivered,
                    loginToken >>
    /\ UNCHANGED webVars
    /\ UNCHANGED uiVars
    /\ UNCHANGED diffVars

\* ------------------------------------------------------------------ webview
WebQuiet == UNCHANGED << hostAuth, cmd, sockets, aux, auxCalls, trackDelivered, loginToken >>

HeadIs(commands) == toWebview # <<>> /\ Head(toWebview).command \in commands

\* Variant: a run already in the list is not added again.
AppendRun_dedup(runs, traceData) ==
    IF \E k \in 1..Len(runs) : runs[k] = traceData THEN runs ELSE Append(runs, traceData)

\* runs: [...prev.runs, message.traceData]
AppendRun(runs, traceData) == Append(runs, traceData)

\* Variant: the insights effect runs after every render.
InsightsEffectRuns_everyRender(wasEvaluating, oldId, isEvaluating, newId) == isEvaluating

\* ControlPanel's insights effect, dependencies [showEvaluating, sessionId]: it
\* runs when one of them changed and arms its 3 s timer if showEvaluating.
InsightsEffectRuns(wasEvaluating, oldId, isEvaluating, newId) ==
    /\ wasEvaluating # isEvaluating \/ oldId # newId
    /\ isEvaluating

\* useChat.handleMessage, command 'traceReceived'.
UseChatTraceReceived ==
    /\ HeadIs({"traceReceived"})
    /\ toWebview' = Tail(toWebview)
    /\ LET newTraceCount == fixSession.traceCount + 1
       IN  /\ messages' = Append(messages, newTraceCount)
           /\ fixSession' = [fixSession EXCEPT !.traceCount = newTraceCount,
                                               !.runs = AppendRun(@, Head(toWebview).data)]
    /\ Observe(<<>>, "none", 0, <<>>, NoDispatch)
    /\ WebQuiet
    /\ UNCHANGED << webAuth, toHost, showEvaluating, insightsTimer, insightsCalls >>
    /\ UNCHANGED uiVars
    /\ UNCHANGED diffVars

\* The webview stores the id of sessionCreated in its session state; the insights
\* effect of ControlPanel depends on [showEvaluating, sessionId] and is re-armed
\* when the id changes.
UseChatSessionCreated ==
    /\ HeadIs({"sessionCreated"})
    /\ toWebview' = Tail(toWebview)
    /\ fixSession' = [fixSession EXCEPT !.sessionId = Head(toWebview).data]
    /\ insightsTimer' = IF InsightsEffectRuns(showEvaluating, fixSession.sessionId,
                                              showEvaluating, Head(toWebview).data)
                        THEN TRUE ELSE insightsTimer
    /\ Observe(<<>>, "none", 0, <<>>, NoDispatch)
    /\ WebQuiet
    /\ UNCHANGED << webAuth, toHost, messages, showEvaluating, insightsCalls >>
    /\ UNCHANGED uiVars
    /\ UNCHANGED diffVars

\* useChat.handleMessage, command 'socketConnected'; the session id is a
\* dependency of ControlPanel's insights effect.
UseChatSocketConnected(sessionId) ==
    /\ view = "control-panel"
    /\ ~fixSession.active
    /\ fixSession' = [fixSession EXCEPT !.active = TRUE, !.sessionId = sessionId]
    /\ insightsTimer' = IF InsightsEffectRuns(showEvaluating, fixSession.sessionId,
                                              showEvaluating, sessionId)
                        THEN TRUE ELSE insightsTimer
    /\ Observe(<<>>, "none", 0, <<>>, [NoDispatch EXCEPT !.event = "socketConnected"])
    /\ WebQuiet
    /\ UNCHANGED << webAuth, toWebview, toHost, messages, showEvaluating, insightsCalls >>
    /\ UNCHANGED uiVars
    /\ UNCHANGED diffVars

\* Variant: the closed socket starts the trace count again.
SocketClosed_fresh(prev) == [prev EXCEPT !.active = FALSE, !.traceCount = 0]

\* {...prev, active: false, socket: undefined}
SocketClosed(prev) == [prev EXCEPT !.active = FALSE]

\* useChat.handleMessage, command 'socketClosed', and the 'disconnect'
\* listener of the socket useChat opens itself.
UseChatSocketClosed ==
    /\ view = "control-panel"
    /\ fixSession' = SocketClosed(fixSession)
    /\ Observe(<<>>, "none", 0, <<>>, [NoDispatch EXCEPT !.event = "socketClosed"])
    /\ WebQuiet
    /\ UNCHANGED << webAuth, toWebview, toHost, messages, showEvaluating, insightsTimer,
                    insightsCalls >>
    /\ UNCHANGED uiVars
    /\ UNCHANGED diffVars

\* The 'run-completed' listener of the socket useChat opens itself: a run of
\* action 'track' is counted and kept as in 'traceReceived'.
UseChatRunCompleted(run) ==
    /\ view = "control-panel"
    /\ fixSession.active
    /\ fixSession.traceCount < MaxTrackEvents
    /\ IF run = "track"
       THEN LET newTraceCount == fixSession.traceCount + 1
            IN  /\ messages' = Append(messages, newTraceCount)
                /\ fixSession' = [fixSession EXCEPT !.traceCount = newTraceCount,
                                                    !.runs = AppendRun(@, RunOf(run, 0))]
       ELSE UNCHANGED << messages, fixSession >>
    /\ Observe(<<>>, "none", 0, <<>>,
               [NoDispatch EXCEPT !.event = "webviewRunCompleted", !.run = run])
    /\ WebQuiet
    /\ UNCHANGED << webAuth, toWebview, toHost, showEvaluating, insightsTimer, insightsCalls >>
    /\ UNCHANGED uiVars
    /\ UNCHANGED diffVars

\* clearChat: the messages are emptied and, with window.vscode set,
\* {command: 'clearChat'} is posted; the session state is not touched.
ClearChat ==
    /\ view = "control-panel"
    /\ Len(toHost) < MaxQueue
    /\ messages' = <<>>
    /\ toHost' = IF win.vscode THEN Append(toHost, Msg("clearChat", TRUE, <<>>)) ELSE toHost
    /\ Observe(<<>>, "none", 0, <<>>, [NoDispatch EXCEPT !.event = "clearChat"])
    /\ WebQuiet
    /\ UNCHANGED << webAuth, toWebview, fixSession, showEvaluating, insightsTimer,
                    insightsCalls >>
    /\ UNCHANGED uiVars
    /\ UNCHANGED diffVars

\* loginResponse / signupResponse reach the webview: LoginForm registers no
\* message listener and no other listener has a branch for them.
LoginFormResponse ==
    /\ HeadIs({"loginResponse", "signupResponse"})
    /\ toWebview' = Tail(toWebview)
    /\ Observe(<<>>, "none", 0, <<>>, NoDispatch)
    /\ WebQuiet
    /\ UNCHANGED << toHost >>
    /\ UNCHANGED webVars
    /\ UNCHANGED uiVars
    /\ UNCHANGED diffVars

\* Variant: the login form leads straight to the control panel.
OnSuccessView_panel == "control-panel"

\* App: the view LoginForm's onSuccess sets.
OnSuccessView == "ai-models"

\* App: the view AIModelsManager's onConnect sets.
OnConnectView == "control-panel"

\* AIModelsManager's message listener, registered while the component is mounted
\* (view 'ai-models'): a failed getProviders or createIntegrationToken asks the
\* host for an error toast; a created token is followed by configureAI and
\* onConnect.
\* The providers of the getProviders response and their models; the response
\* handler selects the provider of lowest id.
ProviderNames == {"OpenAI", "Anthropic"}

DefaultProvider == "OpenAI"

Models == {"gpt-4o", "claude-3"}

ApiKeys == {"sk-1", "sk-2"}

\* The state handleMessage reads: a variant in which the listener is
\* re-registered on every change of the selection.
HandleMessageSees_current(current) == current

\* The state handleMessage reads: the listener is registered by an effect with
\* an empty dependency list, so it is the closure of the first render.
HandleMessageSees(current) == InitManager

\* The payload of {command: 'configureAI', provider, model, apiKey}.
ConfigureAI(state) ==
    [provider |-> state.selectedProvider, model |-> state.selectedModel,
     apiKey |-> state.apiKey]

\* handleProviderChange, handleModelSelect and the API key input's onChange.
HandleProviderChange(provider) ==
    /\ view = "ai-models"
    /\ manager.selectedProvider # provider
    /\ manager' = [manager EXCEPT !.selectedProvider = provider, !.selectedModel = ""]
    /\ Observe(<<>>, "none", 0, <<>>, NoDispatch)
    /\ UNCHANGED << toWebview, toHost, view, form, win, streamingComplete, applyCalls, panel,
                    timers >>
    /\ WebQuiet
    /\ UNCHANGED webVars
    /\ UNCHANGED diffVars

HandleModelSelect(model) ==
    /\ view = "ai-models"
    /\ manager.selectedProvider # NoProvider
    /\ manager.selectedModel # model
    /\ manager' = [manager EXCEPT !.selectedModel = model]
    /\ Observe(<<>>, "none", 0, <<>>, NoDispatch)
    /\ UNCHANGED << toWebview, toHost, view, form, win, streamingComplete, applyCalls, panel,
                    timers >>
    /\ WebQuiet
    /\ UNCHANGED webVars
    /\ UNCHANGED diffVars

SetApiKey(key) ==
    /\ view = "ai-models"
    /\ manager.apiKey # key
    /\ manager' = [manager EXCEPT !.apiKey = key]
    /\ Observe(<<>>, "none", 0, <<>>, NoDispatch)
    /\ UNCHANGED << toWebview, toHost, view, form, win, streamingComplete, applyCalls, panel,
                    timers >>
    /\ WebQuiet
    /\ UNCHANGED webVars
    /\ UNCHANGED diffVars

\* handleConnect: the button is disabled without a model or a key and while
\* connecting; the handler returns without a provider; it posts
\* {command: 'createIntegrationToken', tokenData}.
HandleConnect ==
    /\ view = "ai-models"
    /\ manager.selectedModel # "" /\ manager.apiKey # "" /\ ~manager.isConnecting
    /\ manager.selectedProvider # NoProvider
    /\ auxCalls < MaxAuxCalls
    /\ manager' = [manager EXCEPT !.isConnecting = TRUE,
                                  !.clicked = ConfigureAI(manager)]
    /\ toHost' = Posted(SafeGetVsCodeApi(win), toHost,
                        Msg("createIntegrationToken", TRUE, ConfigureAI(manager)))
    /\ win' = SafeGetVsCodeApi(win).window
    /\ Observe(<<>>, "none", 0, <<>>, NoDispatch)
    /\ UNCHANGED << toWebview, view, form, streamingComplete, applyCalls, panel, timers >>
    /\ WebQuiet
    /\ UNCHANGED webVars
    /\ UNCHANGED diffVars

\* The host takes {command: 'createIntegrationToken'} and runs its handler.
ReceiveCreateIntegrationToken ==
    /\ toHost # <<>>
    /\ Head(toHost).command = "createIntegrationToken"
    /\ aux["integrationToken"] = "idle"
    /\ toHost' = Tail(toHost)
    /\ auxCalls' = auxCalls + 1
    /\ hostAuth' = setAuthToken(HARDCODED_TOKEN)
    /\ aux' = [aux EXCEPT !["integrationToken"] = "await"]
    /\ Observe(<<>>, "none", 0, <<ApiAuxRequest("integrationToken", hostAuth')>>, NoDispatch)
    /\ UNCHANGED << cmd, sockets, toWebview, trackDelivered, loginToken >>
    /\ UNCHANGED webVars
    /\ UNCHANGED uiVars
    /\ UNCHANGED diffVars

AIModelsManagerResponse ==
    /\ HeadIs({"getProviders", "createIntegrationToken"})
    /\ toWebview' = Tail(toWebview)
    /\ LET m == Head(toWebview)
       IN  IF view # "ai-models"
           THEN /\ toHost' = toHost
                /\ win' = win
                /\ view' = view
                /\ manager' = manager
                /\ Observe(<<>>, "none", 0, <<>>, NoDispatch)
           ELSE IF m.success
           THEN /\ toHost' = IF m.command = "createIntegrationToken"
                              THEN Posted(SafeGetVsCodeApi(win), toHost,
                                          Msg("configureAI", TRUE,
                                              ConfigureAI(HandleMessageSees(manager))))
                              ELSE toHost
                /\ win' = IF m.command = "createIntegrationToken"
                           THEN SafeGetVsCodeApi(win).window ELSE win
                /\ view' = IF m.command = "createIntegrationToken" THEN OnConnectView ELSE view
                /\ manager' = IF m.command = "createIntegrationToken"
                               THEN [manager EXCEPT !.isConnecting = FALSE]
                               ELSE [manager EXCEPT !.selectedProvider = DefaultProvider,
                                                    !.isLoadingProviders = FALSE]
                /\ Observe(<<>>, "none", 0, <<>>, NoDispatch)
           ELSE /\ toHost' = Posted(SafeGetVsCodeApi(win), toHost,
                                     Msg("showErrorMessage", FALSE, m.data))
                /\ win' = SafeGetVsCodeApi(win).window
                /\ view' = view
                /\ manager' = IF m.command = "createIntegrationToken"
                               THEN [manager EXCEPT !.isConnecting = FALSE]
                               ELSE [manager EXCEPT !.isLoadingProviders = FALSE]
                /\ Observe(<<>>, m.data, 1, <<>>, NoDispatch)
    /\ WebQuiet
    /\ UNCHANGED webVars
    /\ UNCHANGED << form, streamingComplete, applyCalls, panel, timers >>
    /\ UNCHANGED diffVars

\* ControlPanel (mounted in view 'control-panel') timeline effect: 6 s after traceCount > 0, evaluation starts, and
\* the insights effect arms its 3 s timer.
TimelineTimer ==
    /\ view = "control-panel"
    /\ fixSession.traceCount > 0
    /\ showEvaluating' = TRUE
    /\ insightsTimer' = IF InsightsEffectRuns(showEvaluating, fixSession.sessionId,
                                              TRUE, fixSession.sessionId)
                        THEN TRUE ELSE insightsTimer
    /\ Observe(<<>>, "none", 0, <<>>, [NoDispatch EXCEPT !.event = "timeline"])
    /\ WebQuiet
    /\ UNCHANGED << webAuth, toWebview, toHost, fixSession, messages, insightsCalls >>
    /\ UNCHANGED uiVars
    /\ UNCHANGED diffVars

\* ApiService.getSessionInsights: with no Authorization header it first installs
\* the fallback credential.
InsightsAuth(currentAuth) ==
    IF currentAuth = NoAuth THEN setAuthToken(HARDCODED_TOKEN) ELSE currentAuth

\* The 3 s timer fires: with a session id the insights request is sent.
InsightsTimerFire ==
    /\ insightsTimer
    /\ insightsTimer' = FALSE
    /\ IF fixSession.sessionId # NoSession
       THEN /\ webAuth' = InsightsAuth(webAuth)
            /\ insightsCalls' = insightsCalls + 1
            /\ timers' = [timers EXCEPT !.insightsFor = Append(@, fixSession.sessionId)]
            /\ Observe(<<>>, "none", 0,
                       <<SessionRequest("GET /v1/codegpt/sessions/id/insights", webAuth',
                                        fixSession.sessionId)>>,
                       NoDispatch)
       ELSE /\ UNCHANGED << webAuth, insightsCalls, timers >>
            /\ Observe(<<>>, "none", 0, <<>>, NoDispatch)
    /\ WebQuiet
    /\ UNCHANGED << toWebview, toHost, fixSession, messages, showEvaluating >>
    /\ UNCHANGED << view, form, manager, win, streamingComplete, applyCalls, panel >>
    /\ UNCHANGED diffVars

\* The insights request failed: the catch handler only writes to the console.
InsightsReject ==
    /\ insightsCalls > 0
    /\ insightsCalls' = insightsCalls - 1
    /\ Observe(<<>>, "insights", 0, <<>>, NoDispatch)
    /\ WebQuiet
    /\ UNCHANGED << webAuth, toWebview, toHost, fixSession, messages, showEvaluating,
                    insightsTimer >>
    /\ UNCHANGED uiVars
    /\ UNCHANGED diffVars

\* ------------------------------------------------- ControlPanel: the reveals
\* Texts are sequences of symbols: a symbol is one character, or one literal
\* chunk of a template (a chunk is revealed in one step here, in as many steps
\* as it has characters in the code).
NoTotal == 0 - 1      \* total_insights absent from the response

\* seq without its i-th element: clearInterval, or a timeout that has fired.
Without(seq, i) == SubSeq(seq, 1, i - 1) \o SubSeq(seq, i + 1, Len(seq))

\* escapeHtml of one character: & first, then < and >.
EscapeChar(ch) ==
    CASE ch = "&" -> <<"&", "a", "m", "p", ";">>
      [] ch = "<" -> <<"&", "l", "t", ";">>
      [] ch = ">" -> <<"&", "g", "t", ";">>
      [] OTHER -> <<ch>>

RECURSIVE escapeHtml(_)
\* escapeHtml: null and undefined give '' (here <<>>, as the empty string does),
\* the rest is escaped.
escapeHtml(value) ==
    IF value = <<>> THEN <<>>
    ELSE EscapeChar(Head(value)) \o escapeHtml(Tail(value))

\* `<strong>Problem ${num}:</strong>\n`
ProblemHeader(num) == IF num = 1 THEN "<strong>Problem 1:</strong>" ELSE "<strong>Problem n:</strong>"

RECURSIVE InsightParts(_, _)
\* parts.join('\n\n') of startStreamingInsights, from insight number num on.
InsightParts(insightsData, num) ==
    IF insightsData = <<>> THEN <<>>
    ELSE LET insight == Head(insightsData)
             part == <<ProblemHeader(num)>> \o escapeHtml(insight.problem)
                        \o <<"Solution:">> \o escapeHtml(insight.solution)
         IN  IF Tail(insightsData) = <<>> THEN part
             ELSE part \o <<"\n\n">> \o InsightParts(Tail(insightsData), num + 1)

InsightsText(insightsData) == InsightParts(insightsData, 1)

\* response.data?.total_insights ?? (Array.isArray(insights) ? insights.length : 0)
\* (an absent insights list is <<>> here: it counts 0 and streams nothing, as an
\* empty one does).
TotalInsights(data) ==
    IF data.total_insights # NoTotal THEN data.total_insights ELSE Len(data.insights)

\* response.data?.insights || []
InsightsOf(data) == data.insights

\* Variant: the interval that writes the last character also marks the reveal
\* complete.
RevealDone_atLastChar(currentIndex, length) == currentIndex + 1 >= length

\* The reveal interval's test: a tick that finds currentIndex < fullText.length
\* writes one more character; the first tick that does not clears the interval
\* and marks the reveal complete.
RevealDone(currentIndex, length) == ~(currentIndex < length)

\* The insights request succeeded: foundCount is reset and, with
\* total_insights > 0, the 500 ms counter interval starts; with none the
\* evaluation is complete at once.
InsightsResolve(data) ==
    /\ insightsCalls > 0
    /\ insightsCalls' = insightsCalls - 1
    /\ LET totalInsights == TotalInsights(data)
       IN  IF totalInsights > 0
           THEN /\ panel' = [panel EXCEPT !.foundCount = 0]
                /\ timers' = [timers EXCEPT !.counters =
                                 Append(@, [current |-> 0, totalInsights |-> totalInsights,
                                            insights |-> InsightsOf(data)])]
           ELSE /\ panel' = [panel EXCEPT !.foundCount = 0, !.evaluationComplete = TRUE]
                /\ timers' = timers
    /\ Observe(<<>>, "none", 0, <<>>,
               [NoDispatch EXCEPT !.event = "insights", !.calls = TotalInsights(data)])
    /\ WebQuiet
    /\ UNCHANGED << webAuth, toWebview, toHost, fixSession, messages, showEvaluating,
                    insightsTimer >>
    /\ UNCHANGED << view, form, manager, win, streamingComplete, applyCalls >>
    /\ UNCHANGED diffVars

\* Variant: the counter stops one short of total_insights.
CounterDone_early(current, totalInsights) == current + 1 >= totalInsights

\* if (current >= totalInsights)
CounterDone(current, totalInsights) == current >= totalInsights

\* One tick of the i-th counter interval: current += 1; setFoundCount(current);
\* at total_insights the interval is cleared, the evaluation is complete and the
\* 1 s timeout before the reveal is set.
CounterTick(i) ==
    /\ i \in 1..Len(timers.counters)
    /\ LET c == timers.counters[i]
           current == c.current + 1
       IN  /\ IF CounterDone(current, c.totalInsights)
              THEN /\ panel' = [panel EXCEPT !.foundCount = current,
                                             !.evaluationComplete = TRUE]
                   /\ timers' = [timers EXCEPT !.counters = Without(@, i),
                                               !.delays = Append(@, [insights |-> c.insights,
                                                                     totalInsights |-> c.totalInsights])]
              ELSE /\ panel' = [panel EXCEPT !.foundCount = current]
                   /\ timers' = [timers EXCEPT !.counters[i].current = current]
           /\ Observe(<<>>, "none", 0, <<>>,
                      [NoDispatch EXCEPT !.event = "counterTick", !.calls = current,
                                         !.nOpen = c.totalInsights])
    /\ WebQuiet
    /\ UNCHANGED webVars
    /\ UNCHANGED << toWebview, toHost, view, form, manager, win, streamingComplete, applyCalls >>
    /\ UNCHANGED diffVars

\* The i-th 1 s timeout fires: setShowStreaming(true) and
\* startStreamingInsights(insights), which returns at once on an empty list and
\* otherwise resets streamingComplete and starts the 12 ms reveal interval.
StreamDelayFire(i) ==
    /\ i \in 1..Len(timers.delays)
    /\ LET insightsData == timers.delays[i].insights
           fullText == InsightsText(insightsData)
       IN  /\ panel' = [panel EXCEPT !.showStreaming = TRUE]
           /\ IF insightsData = <<>>
              THEN /\ timers' = [timers EXCEPT !.delays = Without(@, i)]
                   /\ streamingComplete' = streamingComplete
              ELSE /\ timers' = [timers EXCEPT !.delays = Without(@, i),
                                               !.streams = Append(@, [fullText |-> fullText,
                                                                      currentIndex |-> 0]),
                                               !.started = fullText]
                   /\ streamingComplete' = FALSE
           /\ Observe(<<>>, "none", 0, <<>>,
                      [NoDispatch EXCEPT !.event = "streamStart", !.calls = Len(insightsData),
                                         !.nOpen = timers.delays[i].totalInsights])
    /\ WebQuiet
    /\ UNCHANGED webVars
    /\ UNCHANGED << toWebview, toHost, view, form, manager, win, applyCalls >>
    /\ UNCHANGED diffVars

\* One tick of the i-th insights reveal interval.
StreamTick(i) ==
    /\ i \in 1..Len(timers.streams)
    /\ LET st == timers.streams[i]
       IN  IF RevealDone(st.currentIndex, Len(st.fullText))
           THEN /\ timers' = [timers EXCEPT !.streams = Without(@, i)]
                /\ streamingComplete' = TRUE
                /\ panel' = panel
                /\ Observe(<<>>, "none", 0, <<>>,
                           [NoDispatch EXCEPT !.event = "streamDone",
                                              !.calls = st.currentIndex,
                                              !.nOpen = Len(st.fullText)])
           ELSE /\ panel' = [panel EXCEPT !.streamingText =
                                SubSeq(st.fullText, 1, st.currentIndex + 1)]
                /\ timers' = [timers EXCEPT !.streams[i].currentIndex = @ + 1]
                /\ streamingComplete' = streamingComplete
                /\ Observe(<<>>, "none", 0, <<>>,
                           [NoDispatch EXCEPT !.event = "streamTick",
                                              !.calls = st.currentIndex + 1,
                                              !.nOpen = Len(st.fullText)])
    /\ WebQuiet
    /\ UNCHANGED webVars
    /\ UNCHANGED << toWebview, toHost, view, form, manager, win, applyCalls >>
    /\ UNCHANGED diffVars

\* handleStart, behind 'Get Started'.
HandleStart ==
    /\ view = "control-panel"
    /\ panel.active = "start"
    /\ panel' = [panel EXCEPT !.active = "send"]
    /\ Observe(<<>>, "none", 0, <<>>, NoDispatch)
    /\ WebQuiet
    /\ UNCHANGED webVars
    /\ UNCHANGED << toWebview, toHost, view, form, manager, win, streamingComplete, applyCalls, timers >>
    /\ UNCHANGED diffVars

\* The sidebar: onClick={() => setActive(s.key)}.
SetActive(key) ==
    /\ view = "control-panel"
    /\ panel.active # key
    /\ panel' = [panel EXCEPT !.active = key]
    /\ Observe(<<>>, "none", 0, <<>>, NoDispatch)
    /\ WebQuiet
    /\ UNCHANGED webVars
    /\ UNCHANGED << toWebview, toHost, view, form, manager, win, streamingComplete, applyCalls, timers >>
    /\ UNCHANGED diffVars

\* The 'Fix Issues' button of step 'send':
\* {traceCount > 0 && streamingComplete && (<button ...>)}.
\* Variant: the button is shown as soon as a trace has arrived.
FixIssuesShown_always == panel.active = "send" /\ fixSession.traceCount > 0

FixIssuesShown ==
    panel.active = "send" /\ fixSession.traceCount > 0 /\ streamingComplete

\* handleFixIssues, behind the 'Fix Issues' button: without a session id it
\* returns, otherwise it moves to step 'fixes', shows 'Processing...' and calls
\* apiService.applySessionInsights(sessionId).
HandleFixIssues ==
    /\ view = "control-panel"
    /\ FixIssuesShown
    /\ applyCalls < MaxApplyCalls
    /\ timers.applyRequests <= MaxApplyCalls
    /\ IF fixSession.sessionId # NoSession
       THEN /\ applyCalls' = applyCalls + 1
            /\ timers' = [timers EXCEPT !.applyRequests = @ + 1]
            /\ panel' = [panel EXCEPT !.active = "fixes", !.showApplyFixesProcessing = TRUE]
            /\ Observe(<<>>, "none", 0,
                       <<SessionRequest(ApplyInsightsEndpoint, webAuth, fixSession.sessionId)>>,
                       [NoDispatch EXCEPT !.event = "fixIssues"])
       ELSE /\ applyCalls' = applyCalls
            /\ timers' = timers
            /\ panel' = panel
            /\ Observe(<<>>, "none", 0, <<>>, [NoDispatch EXCEPT !.event = "fixIssues"])
    /\ WebQuiet
    /\ UNCHANGED webVars
    /\ UNCHANGED << toWebview, toHost, view, form, manager, win, streamingComplete >>
    /\ UNCHANGED diffVars

\* One item of the apply-insights response.
OptimizationResult(status, applied, original, optimized) ==
    [status |-> status, optimizationApplied |-> applied,
     originalPrompt |-> original, optimizedPrompt |-> optimized]

\* responseData.some(item => item.optimizedPrompt && item.optimizationApplied)
HasOptimizedPrompts(responseData) ==
    \E k \in 1..Len(responseData) :
        responseData[k].optimizedPrompt # <<>> /\ responseData[k].optimizationApplied

\* The filter of startStreamingOptimizedPrompts.
IsValidResult(item) ==
    /\ item.status = "success"
    /\ item.optimizationApplied
    /\ item.optimizedPrompt # <<>>
    /\ item.originalPrompt # <<>>

ValidResults(optimizationResults) == SelectSeq(optimizationResults, IsValidResult)

\* The markdown of one result: heading and metrics table, the two prompts, the
\* improvements list.
ResultMarkdown(result) ==
    <<"## Prompt Optimization Analysis">>
        \o <<IF Len(result.originalPrompt) - Len(result.optimizedPrompt) > 0
             THEN "Simplified" ELSE "Enhanced">>
        \o <<"**Original Prompt**">> \o result.originalPrompt
        \o <<"**Optimized Prompt**">> \o result.optimizedPrompt
        \o <<"**Key Improvements**">>

RECURSIVE FixText(_)
\* parts.join('')
FixText(validResults) ==
    IF validResults = <<>> THEN <<>>
    ELSE ResultMarkdown(Head(validResults)) \o FixText(Tail(validResults))

\* marked(): the leading '## ' line becomes a heading, what follows it a
\* paragraph; nothing of an empty text.
marked(partialText) ==
    IF partialText = <<>> THEN <<>>
    ELSE <<"<h2>Prompt Optimization Analysis</h2>">>
            \o (IF Len(partialText) > 1
                THEN <<"<p>">> \o Tail(partialText) \o <<"</p>">>
                ELSE <<>>)

\* startStreamingOptimizedPrompts: 'Trigger diff immediately when we have the
\* prompts, don't wait for streaming to complete'.
AutoDiffAtOnce(original, optimized) == optimized # <<>> /\ original # <<>>

\* The apply-insights call settles. A failure, or a response without optimized
\* prompts, ends 'Processing...'. Otherwise startStreamingOptimizedPrompts keeps
\* the first valid result's prompts, requests the diff at once and starts the
\* 8 ms reveal interval. (The fallback effect, which requests the diff when the
\* reveal is complete and autoDiffTriggered is not set, never runs: the flag is
\* set together with the prompts.)
ApplySettle(ok, responseData) ==
    /\ applyCalls > 0
    /\ applyCalls' = applyCalls - 1
    /\ LET validResults == ValidResults(responseData)
           original == validResults[1].originalPrompt
           optimized == validResults[1].optimizedPrompt
           fullText == FixText(validResults)
       IN  IF ~ok \/ ~HasOptimizedPrompts(responseData) \/ validResults = <<>>
           THEN /\ panel' = [panel EXCEPT !.showApplyFixesProcessing = FALSE]
                /\ UNCHANGED << timers, toHost, win >>
                /\ Observe(<<>>, IF ok THEN "none" ELSE "apply", 0, <<>>,
                           [NoDispatch EXCEPT !.event = "applySettle"])
           ELSE /\ panel' = [panel EXCEPT
                                !.showApplyFixesProcessing = FALSE,
                                !.optimizedPromptContent = optimized,
                                !.originalPromptContent = original,
                                !.autoDiffTriggered =
                                    IF AutoDiffAtOnce(original, optimized) THEN TRUE ELSE @,
                                !.applyFixesStreamingComplete = FALSE,
                                !.showApplyFixesStreaming = TRUE]
                /\ toHost' = IF AutoDiffAtOnce(original, optimized)
                             THEN Posted(GetVSCodeApi(win), toHost,
                                         Msg("diffPromptInProject", TRUE,
                                             <<original, optimized>>))
                             ELSE toHost
                /\ win' = IF AutoDiffAtOnce(original, optimized)
                           THEN GetVSCodeApi(win).window ELSE win
                /\ timers' = [timers EXCEPT
                                 !.fixStreams = Append(@, [fullText |-> fullText,
                                                           currentIndex |-> 0]),
                                 !.fixStarted = fullText]
                /\ Observe(<<>>, "none", 0, <<>>,
                           [NoDispatch EXCEPT !.event = "applySettle",
                                              !.posts = Len(toHost') - Len(toHost),
                                              !.calls = 1])
    /\ WebQuiet
    /\ UNCHANGED webVars
    /\ UNCHANGED << toWebview, view, form, manager, streamingComplete >>
    /\ UNCHANGED diffVars

\* handleSubmitFeedback with no feedback text: ControlPanel posts
\* {command: 'showErrorMessage'} through getVSCodeApi.
HandleSubmitFeedback ==
    /\ view = "control-panel"
    /\ Len(toHost) < MaxQueue
    /\ toHost' = Posted(GetVSCodeApi(win), toHost,
                        Msg("showErrorMessage", FALSE, "feedback"))
    /\ win' = GetVSCodeApi(win).window
    /\ Observe(<<>>, "none", 0, <<>>, [NoDispatch EXCEPT !.event = "feedback"])
    /\ WebQuiet
    /\ UNCHANGED webVars
    /\ UNCHANGED << toWebview, view, form, manager, streamingComplete, applyCalls, panel,
                    timers >>
    /\ UNCHANGED diffVars

\* One tick of the i-th optimization reveal interval.
FixStreamTick(i) ==
    /\ i \in 1..Len(timers.fixStreams)
    /\ LET st == timers.fixStreams[i]
       IN  IF RevealDone(st.currentIndex, Len(st.fullText))
           THEN /\ timers' = [timers EXCEPT !.fixStreams = Without(@, i)]
                /\ panel' = [panel EXCEPT !.applyFixesStreamingComplete = TRUE]
                /\ Observe(<<>>, "none", 0, <<>>,
                           [NoDispatch EXCEPT !.event = "fixStreamDone",
                                              !.calls = st.currentIndex,
                                              !.nOpen = Len(st.fullText)])
           ELSE /\ panel' = [panel EXCEPT !.applyFixesStreamingText =
                                marked(SubSeq(st.fullText, 1, st.currentIndex + 1))]
                /\ timers' = [timers EXCEPT !.fixStreams[i].currentIndex = @ + 1]
                /\ Observe(<<>>, "none", 0, <<>>,
                           [NoDispatch EXCEPT !.event = "fixStreamTick",
                                              !.calls = st.currentIndex + 1,
                                              !.nOpen = Len(st.fullText)])
    /\ WebQuiet
    /\ UNCHANGED webVars
    /\ UNCHANGED << toWebview, toHost, view, form, manager, win, streamingComplete, applyCalls >>
    /\ UNCHANGED diffVars

\* ---------------------------------------------------------------- LoginForm
\* /\S+@\S+\.\S+/.test(email): somewhere in the text, a non-space character,
\* '@', one or more non-space characters, '.', a non-space character.
EmailPattern(email) ==
    \E p, q \in 1..Len(email) :
        /\ p >= 2 /\ email[p - 1] # " "
        /\ email[p] = "@"
        /\ q >= p + 2 /\ email[q] = "."
        /\ \A k \in (p + 1)..(q - 1) : email[k] # " "
        /\ q + 1 <= Len(email) /\ email[q + 1] # " "

\* validateForm: the fields with an error.
validateForm(email, password) ==
    (IF email = <<>> \/ ~EmailPattern(email) THEN {"email"} ELSE {})
    \cup (IF password = <<>> \/ Len(password) < MinPasswordLength THEN {"password"} ELSE {})

\* Variant: the form is submitted whatever validateForm returns.
SubmitOutcome_noValidation(errors) ==
    [post |-> TRUE, advance |-> errors = {}, isLoading |-> FALSE]

\* Variant: a valid form is posted and the form stays mounted, to be submitted
\* again.
SubmitOutcome_staysOnForm(errors) ==
    [post |-> errors = {}, advance |-> FALSE, isLoading |-> FALSE]

\* handleSubmit after validateForm: with errors it returns at once; without, it
\* sets isLoading, posts 'login', calls onSuccess and, in finally, clears
\* isLoading: all in one synchronous run.
SubmitOutcome(errors) ==
    [post |-> errors = {}, advance |-> errors = {}, isLoading |-> FALSE]

\* handleInputChange: the field takes the value and its error is cleared.
HandleInputChange(field, value) ==
    /\ view = "auth"
    /\ form' = IF field = "email"
               THEN [form EXCEPT !.email = value, !.errors = @ \ {"email"}]
               ELSE [form EXCEPT !.password = value, !.errors = @ \ {"password"}]
    /\ form' # form
    /\ Observe(<<>>, "none", 0, <<>>, NoDispatch)
    /\ WebQuiet
    /\ UNCHANGED webVars
    /\ UNCHANGED << toWebview, toHost, view, streamingComplete, applyCalls, panel, timers, manager, win >>
    /\ UNCHANGED diffVars

\* The form is submitted. When the view leaves 'auth' LoginForm is unmounted and
\* its state is gone.
HandleSubmit ==
    LET errors == validateForm(form.email, form.password)
        o == SubmitOutcome(errors)
    IN  /\ view = "auth"
        /\ toHost' = IF o.post
                     THEN Posted(SafeGetVsCodeApi(win), toHost,
                                 Msg("login", TRUE, <<form.email, form.password>>))
                     ELSE toHost
        /\ win' = IF o.post THEN SafeGetVsCodeApi(win).window ELSE win
        /\ view' = IF o.advance THEN OnSuccessView ELSE view
        /\ form' = IF o.advance THEN InitForm
                   ELSE [form EXCEPT !.errors = errors, !.isLoading = o.isLoading]
        /\ Observe(<<>>, "none", 0, <<>>,
                   [event |-> "submit", run |-> "norun", calls |-> 0,
                    posts |-> Len(toHost') - Len(toHost), nOpen |-> 0])
        /\ WebQuiet
        /\ UNCHANGED webVars
        /\ UNCHANGED << toWebview, streamingComplete, applyCalls, panel, timers, manager >>
        /\ UNCHANGED diffVars

\* The host receives the {command: 'login'} the form posted.
ReceiveLogin(c) ==
    /\ toHost # <<>>
    /\ Head(toHost).command = "login"
    /\ toHost' = Tail(toHost)
    /\ cmd[c].pc = "idle"
    /\ \A d \in CmdIds : d < c => cmd[d].pc # "idle"
    /\ cmd' = [cmd EXCEPT ![c] = [kind |-> "login", pc |-> "awaitAuth", log |-> <<>>]]
    /\ Observe(<<>>, "none", 0, <<Request("POST /auth/login", hostAuth)>>, NoDispatch)
    /\ UNCHANGED << hostAuth, sockets, aux, auxCalls, toWebview, trackDelivered, loginToken >>
    /\ UNCHANGED webVars
    /\ UNCHANGED uiVars
    /\ UNCHANGED diffVars

\* ------------------------------------------------- diff, Accept / Deny, apply
\* A null handed to String.includes / String.replace is converted to 'null'.
SearchText(prompt) == IF prompt = NoPrompt THEN <<"null">> ELSE prompt

\* The positions at which text occurs in content.
Occurrences(content, text) ==
    {p \in 1..(Len(content) - Len(text) + 1) :
        SubSeq(content, p, p + Len(text) - 1) = text}

\* content.includes(text)
Includes(content, text) == Occurrences(content, text) # {}

\* The replacement String.replace inserts for a string pattern: in the
\* replacement text '$$' stands for '$', '$&' for the match, '$' and a
\* backtick for the text before the match, '$' and an apostrophe for the text
\* after it; every other symbol, a '$' before anything else included, is copied.
RECURSIVE GetSubstitution(_, _, _, _)
GetSubstitution(matched, before, after, by) ==
    IF by = <<>> THEN <<>>
    ELSE IF Head(by) = "$" /\ Len(by) > 1 /\ by[2] \in {"$", "&", "backtick", "apostrophe"}
    THEN (CASE by[2] = "$" -> <<"$">>
            [] by[2] = "&" -> matched
            [] by[2] = "backtick" -> before
            [] OTHER -> after)
         \o GetSubstitution(matched, before, after, SubSeq(by, 3, Len(by)))
    ELSE <<Head(by)>> \o GetSubstitution(matched, before, after, Tail(by))

\* content.replace(text, by) with a string pattern: the first occurrence only.
ReplaceFirst(content, text, by) ==
    IF ~Includes(content, text) THEN content
    ELSE LET p == CHOOSE q \in Occurrences(content, text) :
                      \A r \in Occurrences(content, text) : q <= r
             before == SubSeq(content, 1, p - 1)
             after == SubSeq(content, p + Len(text), Len(content))
         IN  before \o GetSubstitution(text, before, after, by) \o after

\* Variant: the search falls back to the first file of the workspace.
Containing_orAny(text) ==
    IF \E f \in Files : Includes(files[f].doc, text)
    THEN {f \in Files : Includes(files[f].doc, text)}
    ELSE {"f1"}

\* The files the scan of findFiles' result can stop at: those whose document
\* includes the text (findFiles promises no order).
Containing(text) == {f \in Files : Includes(files[f].doc, text)}

\* Variant: a pair of status bar items per diff.
ShowStatusBar_perDiff(shown) == shown + 1

\* _showStatusBar: show() on the one Accept item and the one Deny item created
\* by _registerCommands.
ShowStatusBar(shown) == 1

\* Variant: the items are hidden and the stored prompts kept.
HideStatusBar_keepsPrompts(st) == st

\* _hideStatusBar: hide() on both items; the stored prompts and uri are cleared.
HideStatusBar(st) == NoStored

\* A tab: a text editor, or a diff editor with the uri schemes of its two sides;
\* mine tells whether a vscode.diff of this extension opened it.
EditorTab(scheme) == [input |-> "text", original |-> scheme, modified |-> scheme, mine |-> FALSE]
DiffTab(original, modified, mine) ==
    [input |-> "diff", original |-> original, modified |-> modified, mine |-> mine]

\* Variant: every diff tab is taken for one of the extension's.
IsHanditDiff_anyDiff(tab) == tab.input = "diff"

\* _closeDiffTab's test: a diff tab whose left side has scheme handit-virtual or
\* file and whose right side has scheme handit-optimized or handit-virtual.
IsHanditDiff(tab) ==
    /\ tab.input = "diff"
    /\ tab.original \in {"handit-virtual", "file"}
    /\ tab.modified \in {"handit-optimized", "handit-virtual"}

\* _closeDiffTab: tabGroups.close on every tab that passes the test.
CloseDiffTabs(open) == {tab \in open : ~IsHanditDiff(tab)}

DiffQuiet ==
    /\ UNCHANGED << hostAuth, cmd, sockets, aux, auxCalls, toWebview, toHost,
                    trackDelivered, loginToken >>
    /\ UNCHANGED webVars
    /\ UNCHANGED uiVars

Started == opCount' = opCount + 1

\* _handleDiffPromptInProject up to findFiles: the prompts are stored; without a
\* workspace folder a warning is shown and the handler returns.
HandleDiffPromptInProject(originalPrompt, optimizedPrompt, workspace) ==
    /\ ops.diff.pc = "idle"
    /\ opCount < MaxDiffOps
    /\ Started
    /\ stored' = [stored EXCEPT !.original = originalPrompt, !.optimized = optimizedPrompt]
    /\ IF workspace
       THEN /\ ops' = [ops EXCEPT !.diff = [pc |-> "scan", orig |-> originalPrompt,
                                           opt |-> optimizedPrompt, target |-> NoUri]]
            /\ Observe(<<>>, "none", 0, <<>>, NoDispatch)
       ELSE /\ ops' = ops
            /\ Observe(<<Toast("warning", "noWorkspace")>>, "none", 0, <<>>, NoDispatch)
    /\ UNCHANGED << statusBar, files, diffSession, tabs >>
    /\ DiffQuiet

\* The host receives the {command: 'diffPromptInProject'} the control panel
\* posted, and _handleDiffPromptInProject runs up to findFiles.
ReceiveDiffPromptInProject(workspace) ==
    /\ toHost # <<>>
    /\ Head(toHost).command = "diffPromptInProject"
    /\ toHost' = Tail(toHost)
    /\ ops.diff.pc = "idle"
    /\ opCount < MaxDiffOps
    /\ Started
    /\ LET originalPrompt == Head(toHost).data[1]
           optimizedPrompt == Head(toHost).data[2]
       IN  /\ stored' = [stored EXCEPT !.original = originalPrompt,
                                        !.optimized = optimizedPrompt]
           /\ IF workspace
              THEN /\ ops' = [ops EXCEPT !.diff = [pc |-> "scan", orig |-> originalPrompt,
                                                  opt |-> optimizedPrompt, target |-> NoUri]]
                   /\ Observe(<<>>, "none", 0, <<>>, NoDispatch)
              ELSE /\ ops' = ops
                   /\ Observe(<<Toast("warning", "noWorkspace")>>, "none", 0, <<>>, NoDispatch)
    /\ UNCHANGED << statusBar, files, diffSession, tabs >>
    /\ UNCHANGED << hostAuth, cmd, sockets, aux, auxCalls, toWebview, trackDelivered,
                    loginToken >>
    /\ UNCHANGED webVars
    /\ UNCHANGED uiVars

\* Variant: the dispose timeout is set after the diff command, inside the try.
DisposeScheduled_onSuccess(throws) == ~throws

\* finally { setTimeout(() => registration.dispose(), 30000) }: the timeout is
\* set whether vscode.diff resolved or threw.
DisposeScheduled(throws) == TRUE

\* registerTextDocumentContentProvider(scheme, provider), then vscode.diff in
\* try / finally.
Registered(scheme, throws) == [scheme |-> scheme, timer |-> DisposeScheduled(throws)]

\* _handleDiffPromptInProject after findFiles: the provider is registered
\* (handit-optimized for the first file with the original prompt, else
\* handit-virtual) and vscode.diff is executed; when it resolves the status bar
\* is shown, when it throws the error toast is.
DiffOpen(throws) ==
    /\ ops.diff.pc = "scan"
    /\ ops' = [ops EXCEPT !.diff = IdleOp,
                          !.registrations =
                              Append(@, Registered(IF Containing(ops.diff.orig) # {}
                                                   THEN "handit-optimized"
                                                   ELSE "handit-virtual", throws))]
    /\ IF throws
       THEN /\ UNCHANGED << stored, statusBar, diffSession, tabs >>
            /\ Observe(<<Toast("error", "diffFailed")>>, "diff", 0, <<>>, NoDispatch)
       ELSE /\ \/ /\ \E leftUri \in Containing(ops.diff.orig) :
                        stored' = [stored EXCEPT !.diffUri = leftUri]
                  /\ tabs' = tabs \cup {DiffTab("file", "handit-optimized", TRUE)}
               \/ /\ Containing(ops.diff.orig) = {}
                  /\ stored' = stored
                  /\ tabs' = tabs \cup {DiffTab("handit-virtual", "handit-virtual", TRUE)}
            /\ statusBar' = ShowStatusBar(statusBar)
            /\ diffSession' = "open"
            /\ Observe(<<>>, "none", 0, <<>>,
                       [NoDispatch EXCEPT !.event = "diffOpen", !.nOpen = statusBar])
    /\ UNCHANGED << files, opCount >>
    /\ DiffQuiet

\* handit.acceptPromptChanges: _acceptPromptChanges up to findFiles.
AcceptPromptChanges ==
    /\ ops.accept.pc = "idle"
    /\ opCount < MaxDiffOps
    /\ Started
    /\ IF stored.original = NoPrompt \/ stored.optimized = NoPrompt \/ stored.diffUri = NoUri
       THEN /\ ops' = ops
            /\ Observe(<<Toast("error", "noChanges")>>, "accept", 0, <<>>,
                       [NoDispatch EXCEPT !.event = "accept"])
       ELSE /\ ops' = [ops EXCEPT !.accept.pc = "scan"]
            /\ Observe(<<>>, "none", 0, <<>>, [NoDispatch EXCEPT !.event = "accept"])
    /\ UNCHANGED << stored, statusBar, files, diffSession, tabs >>
    /\ DiffQuiet

\* _acceptPromptChanges, the scan: the first file whose text includes the stored
\* original prompt, or the error that there is none.
AcceptScan(throws) ==
    /\ ops.accept.pc = "scan"
    /\ IF throws
       THEN /\ ops' = [ops EXCEPT !.accept = IdleOp]
            /\ Observe(<<Toast("error", "acceptFailed")>>, "accept", 0, <<>>,
                       [NoDispatch EXCEPT !.event = "acceptScan"])
       ELSE /\ \/ \E targetFile \in Containing(SearchText(stored.original)) :
                     ops' = [ops EXCEPT !.accept.pc = "apply", !.accept.target = targetFile]
               \/ /\ Containing(SearchText(stored.original)) = {}
                  /\ ops' = [ops EXCEPT !.accept = IdleOp]
            /\ Observe(IF ops'.accept.pc = "idle"
                       THEN <<Toast("error", "notFound")>> ELSE <<>>,
                       IF ops'.accept.pc = "idle" THEN "accept" ELSE "none", 0, <<>>,
                       [NoDispatch EXCEPT !.event = "acceptScan"])
    /\ UNCHANGED << stored, statusBar, files, diffSession, tabs, opCount >>
    /\ DiffQuiet

\* _acceptPromptChanges, the edit: the text with the first occurrence replaced
\* goes into a WorkspaceEdit; applyEdit is awaited and its result dropped; the
\* success toast is shown and the status bar hidden. Nothing is saved.
AcceptApply(applied) ==
    /\ ops.accept.pc = "apply"
    /\ ops' = [ops EXCEPT !.accept = IdleOp]
    /\ LET targetFile == ops.accept.target
           newContent == ReplaceFirst(files[targetFile].doc, SearchText(stored.original),
                                      SearchText(stored.optimized))
       IN  files' = IF applied THEN [files EXCEPT ![targetFile].doc = newContent] ELSE files
    /\ stored' = HideStatusBar(stored)
    /\ statusBar' = 0
    /\ diffSession' = "accepted"
    /\ Observe(<<Toast("info", "accepted")>>, "none", 0, <<>>,
               [NoDispatch EXCEPT !.event = "acceptApply", !.run = ops.accept.target,
                                  !.calls = IF applied THEN 1 ELSE 0])
    /\ UNCHANGED << tabs, opCount >>
    /\ DiffQuiet

\* handit.denyPromptChanges with feedback entered, or submitFeedback from the
\* webview: _handleFeedbackSubmission closes the diff and hides the status bar.
DenyPromptChanges ==
    /\ opCount < MaxDiffOps
    /\ Started
    /\ stored' = HideStatusBar(stored)
    /\ statusBar' = 0
    /\ diffSession' = IF diffSession = "open" THEN "denied" ELSE diffSession
    /\ tabs' = CloseDiffTabs(tabs)
    /\ Observe(<<Toast("info", "feedback")>>, "none", 0, <<>>,
               [NoDispatch EXCEPT !.event = "deny",
                                  !.calls = Cardinality(tabs \ CloseDiffTabs(tabs))])
    /\ UNCHANGED << files, ops >>
    /\ DiffQuiet

\* _handleApplyPromptChangeInProject up to findFiles.
HandleApplyPromptChangeInProject(originalPrompt, optimizedPrompt, workspace) ==
    /\ ops.apply.pc = "idle"
    /\ opCount < MaxDiffOps
    /\ Started
    /\ IF workspace
       THEN /\ ops' = [ops EXCEPT !.apply = [pc |-> "scan", orig |-> originalPrompt,
                                            opt |-> optimizedPrompt, target |-> NoUri]]
            /\ Observe(<<>>, "none", 0, <<>>, NoDispatch)
       ELSE /\ ops' = ops
            /\ Observe(<<Toast("warning", "noWorkspace")>>, "none", 0, <<>>, NoDispatch)
    /\ UNCHANGED << stored, statusBar, files, diffSession, tabs >>
    /\ DiffQuiet

\* _handleApplyPromptChangeInProject after findFiles: the first file with the
\* original prompt gets the edit; only an applied edit is saved and reported.
ApplyChange(outcome) ==
    /\ ops.apply.pc = "scan"
    /\ ops' = [ops EXCEPT !.apply = IdleOp]
    /\ \/ /\ Containing(ops.apply.orig) = {}
          /\ outcome = "applied"
          /\ files' = files
          /\ Observe(<<Toast("warning", "noFile")>>, "none", 0, <<>>,
                     [NoDispatch EXCEPT !.event = "applyChange"])
       \/ \E target \in Containing(ops.apply.orig) :
             LET newText == ReplaceFirst(files[target].doc, ops.apply.orig, ops.apply.opt)
             IN  CASE outcome = "applied" ->
                        /\ files' = [files EXCEPT ![target] = FileOf(newText)]
                        /\ Observe(<<Toast("info", "applied")>>, "none", 0, <<>>,
                                   [NoDispatch EXCEPT !.event = "applyChange",
                                                      !.run = target, !.calls = 1])
                   [] outcome = "notApplied" ->
                        /\ files' = files
                        /\ Observe(<<Toast("error", "notApplied")>>, "apply", 0, <<>>,
                                   [NoDispatch EXCEPT !.event = "applyChange"])
                   [] OTHER ->
                        /\ files' = files
                        /\ Observe(<<Toast("error", "applyFailed")>>, "apply", 0, <<>>,
                                   [NoDispatch EXCEPT !.event = "applyChange"])
    /\ UNCHANGED << stored, statusBar, diffSession, tabs, opCount >>
    /\ DiffQuiet

\* original.split(searchText).join(replacementText): every occurrence, taken
\* from the left without overlap, is replaced.
RECURSIVE SplitJoin(_, _, _)
SplitJoin(content, text, by) ==
    IF ~Includes(content, text) THEN content
    ELSE LET p == CHOOSE q \in Occurrences(content, text) :
                      \A r \in Occurrences(content, text) : q <= r
         IN  SubSeq(content, 1, p - 1) \o by
             \o SplitJoin(SubSeq(content, p + Len(text), Len(content)), text, by)

\* Variant: the counter counts every file that contains the text.
BulkUpdated_everyMatch(updated, applied) == updated + 1

\* updated += 1 behind `if (applied)`.
BulkUpdated(updated, applied) == IF applied THEN updated + 1 ELSE updated

\* _handleBulkApplyTextReplace up to findFiles.
HandleBulkApplyTextReplace(searchText, replacementText, workspace) ==
    /\ ops.bulk.pc = "idle"
    /\ opCount < MaxDiffOps
    /\ Started
    /\ IF workspace
       THEN /\ ops' = [ops EXCEPT !.bulk = [IdleBulk EXCEPT !.pc = "loop",
                                                          !.searchText = searchText,
                                                          !.replacementText = replacementText,
                                                          !.todo = Files]]
            /\ Observe(<<>>, "none", 0, <<>>, NoDispatch)
       ELSE /\ ops' = ops
            /\ Observe(<<Toast("warning", "noWorkspace")>>, "none", 0, <<>>, NoDispatch)
    /\ UNCHANGED << stored, statusBar, files, diffSession, tabs >>
    /\ DiffQuiet

\* One turn of the loop over fileUris: a file without the text is passed over;
\* otherwise the edit with every occurrence replaced is applied and, if applied,
\* the document saved and counted. A rejected edit or a throw leaves the file.
BulkFile(uri, applied) ==
    /\ ops.bulk.pc = "loop"
    /\ uri \in ops.bulk.todo
    /\ LET original == files[uri].doc
           hit == Includes(original, ops.bulk.searchText)
           newText == SplitJoin(original, ops.bulk.searchText, ops.bulk.replacementText)
       IN  /\ hit \/ applied
           /\ files' = IF hit /\ applied THEN [files EXCEPT ![uri] = FileOf(newText)] ELSE files
           /\ ops' = [ops EXCEPT !.bulk.todo = @ \ {uri},
                                 !.bulk.updated = IF hit THEN BulkUpdated(@, applied) ELSE @,
                                 !.bulk.saved = IF hit /\ applied THEN @ \cup {uri} ELSE @]
           /\ Observe(<<>>, IF hit /\ ~applied THEN "bulk" ELSE "none", 0, <<>>,
                      [NoDispatch EXCEPT !.event = "bulkFile", !.run = uri,
                                         !.calls = IF hit /\ applied THEN 1 ELSE 0])
    /\ UNCHANGED << stored, statusBar, diffSession, tabs, opCount >>
    /\ DiffQuiet

\* After the loop: the toast 'Bulk replace applied in ${updated} file(s).'
BulkDone ==
    /\ ops.bulk.pc = "loop"
    /\ ops.bulk.todo = {}
    /\ ops' = [ops EXCEPT !.bulk = [IdleBulk EXCEPT !.updated = ops.bulk.updated,
                                                    !.saved = ops.bulk.saved]]
    /\ Observe(<<Toast("info", "bulkApplied")>>, "none", 0, <<>>,
               [NoDispatch EXCEPT !.event = "bulkDone", !.calls = ops.bulk.updated])
    /\ UNCHANGED << stored, statusBar, files, diffSession, tabs, opCount >>
    /\ DiffQuiet

\* _handleBulkReplaceTextDiff up to findFiles.
HandleBulkReplaceTextDiff(searchText, workspace) ==
    /\ ops.preview.pc = "idle"
    /\ opCount < MaxDiffOps
    /\ Started
    /\ IF workspace
       THEN /\ ops' = [ops EXCEPT !.preview = [IdleOp EXCEPT !.pc = "scan", !.orig = searchText]]
            /\ Observe(<<>>, "none", 0, <<>>, NoDispatch)
       ELSE /\ ops' = ops
            /\ Observe(<<Toast("warning", "noWorkspace")>>, "none", 0, <<>>, NoDispatch)
    /\ UNCHANGED << stored, statusBar, files, diffSession, tabs >>
    /\ DiffQuiet

\* _handleBulkReplaceTextDiff after findFiles: without a match an information
\* toast; otherwise the diff of the first match against the handit-bulk-replace
\* document, and the toast with the number of matches.
BulkReplaceTextDiffOpen(throws) ==
    /\ ops.preview.pc = "scan"
    /\ IF Containing(ops.preview.orig) = {}
       THEN /\ ops' = [ops EXCEPT !.preview = IdleOp]
            /\ tabs' = tabs
            /\ Observe(<<Toast("info", "noMatches")>>, "none", 0, <<>>, NoDispatch)
       ELSE IF throws
       THEN /\ ops' = [ops EXCEPT !.preview = IdleOp,
                                  !.registrations =
                                      Append(@, Registered("handit-bulk-replace", throws))]
            /\ tabs' = tabs
            /\ Observe(<<Toast("error", "bulkDiffFailed")>>, "diff", 0, <<>>, NoDispatch)
       ELSE /\ ops' = [ops EXCEPT !.preview = IdleOp,
                                  !.registrations =
                                      Append(@, Registered("handit-bulk-replace", throws))]
            /\ tabs' = tabs \cup {DiffTab("file", "handit-bulk-replace", TRUE)}
            /\ Observe(<<Toast("info", "foundMatches")>>, "none", 0, <<>>,
                       [NoDispatch EXCEPT !.event = "bulkDiff",
                                          !.calls = Cardinality(Containing(ops.preview.orig))])
    /\ UNCHANGED << stored, statusBar, files, diffSession, opCount >>
    /\ DiffQuiet

\* A 30 s timeout fires: registration.dispose(). Nothing else disposes a
\* provider, and the timeout looks at neither the tabs nor the diff session.
DisposeTimerFire(i) ==
    /\ i \in 1..Len(ops.registrations)
    /\ ops.registrations[i].timer
    /\ ops' = [ops EXCEPT !.registrations =
                   SubSeq(@, 1, i - 1) \o SubSeq(@, i + 1, Len(@))]
    /\ Observe(<<>>, "none", 0, <<>>,
               [NoDispatch EXCEPT !.event = "dispose", !.run = ops.registrations[i].scheme])
    /\ UNCHANGED << stored, statusBar, files, diffSession, tabs, opCount >>
    /\ DiffQuiet

\* The user opens a text editor or a diff editor of their own (a file against
\* its git version, two files).
UserOpensTab(tab) ==
    /\ tab \notin tabs
    /\ tabs' = tabs \cup {tab}
    /\ Observe(<<>>, "none", 0, <<>>, NoDispatch)
    /\ UNCHANGED << stored, statusBar, files, diffSession, ops, opCount >>
    /\ DiffQuiet

\* The panel is closed: the webview and its React state are gone and the messages
\* on their way are dropped. resolveWebviewView registers no onDidDispose
\* listener, so nothing of the provider changes.
PanelReset(window) ==
    /\ toWebview' = <<>>
    /\ toHost' = <<>>
    /\ webAuth' = NoAuth
    /\ fixSession' = [active |-> FALSE, traceCount |-> 0, runs |-> <<>>, sessionId |-> NoSession]
    /\ messages' = <<0>>
    /\ showEvaluating' = FALSE
    /\ insightsTimer' = FALSE
    /\ insightsCalls' = 0
    /\ view' = "auth"
    /\ form' = InitForm
    /\ manager' = InitManager
    /\ win' = window
    /\ streamingComplete' = FALSE
    /\ applyCalls' = 0
    /\ panel' = InitPanel
    /\ timers' = NoTimers
    /\ Observe(<<>>, "none", 0, <<>>, [NoDispatch EXCEPT !.event = "panelClosed"])
    /\ UNCHANGED << hostAuth, cmd, sockets, aux, auxCalls, trackDelivered, loginToken >>
    /\ UNCHANGED diffVars

\* Closed and shown again inside VS Code, the inline script run.
PanelClosed == PanelReset(BootedWindow)

\* resolveWebviewView sets webview.html: a new document, inside VS Code or, for
\* the dev page, in a browser; the inline script has not run yet.
WebviewLoad(hasAcquire) == PanelReset(FreshWindow(hasAcquire))

\* The inline script of the HTML runs, before the bundle.
Bootstrap ==
    /\ ~win.booted
    /\ win' = BootstrapScript(win)
    /\ Observe(<<>>, "none", 0, <<>>, [NoDispatch EXCEPT !.event = "bootstrap"])
    /\ WebQuiet
    /\ UNCHANGED webVars
    /\ UNCHANGED << toWebview, toHost, view, form, manager, streamingComplete, applyCalls,
                    panel, timers >>
    /\ UNCHANGED diffVars

\* The user edits a file in the editor and saves it: here, the first word goes.
EditFile(f) ==
    /\ opCount < MaxDiffOps
    /\ Started
    /\ files[f].doc # <<>>
    /\ files' = [files EXCEPT ![f] = FileOf(Tail(files[f].doc))]
    /\ Observe(<<>>, "none", 0, <<>>, NoDispatch)
    /\ UNCHANGED << stored, statusBar, diffSession, ops, tabs >>
    /\ DiffQuiet

\* ------------------------------------------------------------ specifications
\* Insights a response carries: a plain one, and one with markup characters and
\* no solution.
Insight1 == [problem |-> <<"p">>, solution |-> <<"s">>]
Insight2 == [problem |-> <<"<">>, solution |-> <<>>]
InsightLists == {<<>>, <<Insight1>>, <<Insight2, Insight1>>}

\* Insights responses: total_insights absent or a count, which need not be the
\* length of the list.
InsightsResponses ==
    [total_insights : {NoTotal} \cup (0..MaxInsights), insights : InsightLists]

\* Apply-insights responses: empty, one applied optimization, one that failed,
\* one that was not applied.
ApplyResponses ==
    {<<>>,
     <<OptimizationResult("success", TRUE, <<"a", "a">>, <<"b">>)>>,
     <<OptimizationResult("success", TRUE, <<"a">>, <<"a", "a">>)>>,
     <<OptimizationResult("error", TRUE, <<"a">>, <<"b">>)>>,
     <<OptimizationResult("success", FALSE, <<"a">>, <<>>)>>}

SocketIds == 1..MaxCmds     \* every command opens at most one socket

\* Field values a user pastes to get past the login form.
SampleEmail == <<"u", "@", "u", ".", "u">>
SamplePassword == <<"p", "p", "p", "p", "p", "p">>

\* The user gets from the login form to the control panel: a valid form is
\* submitted, the host takes the login, and AIModelsManager (mounted in view
\* 'ai-models', the only sender of createIntegrationToken) connects a provider.
ReachControlPanel ==
    \/ HandleInputChange("email", SampleEmail)
    \/ HandleInputChange("password", SamplePassword)
    \/ HandleSubmit
    \/ \E c \in CmdIds : ReceiveLogin(c)
    \/ (view = "ai-models" /\ HandleCreateIntegrationToken)
    \/ AuxSettle("integrationToken", TRUE)
    \/ AIModelsManagerResponse
    \/ HostUnhandledCommand

\* The panel host's session life cycle: login/signup, session creation, the
\* notification channel's connection events, and the webview taking the posted
\* messages.
Next ==
    \/ \E c \in CmdIds : HandleLogin(c)
    \/ \E c \in CmdIds : HandleSignup(c)
    \/ \E c \in CmdIds, tok \in Tokens \cup {NoToken} : AuthResolve(c, tok)
    \/ \E c \in CmdIds, err \in ErrKinds : AuthReject(c, err)
    \/ \E c \in CmdIds, ioThrows \in BOOLEAN : SessionResolve(c, ioThrows)
    \/ \E c \in CmdIds, err \in ErrKinds : SessionReject(c, err)
    \/ \E i \in SocketIds : SocketConnect(i)
    \/ \E i \in SocketIds : SocketConnectError(i)
    \/ \E i \in SocketIds, byServer \in BOOLEAN : SocketDisconnect(i, byServer)
    \/ \E i \in SocketIds : SocketError(i)
    \/ UseChatSessionCreated
    \/ LoginFormResponse

Spec == Init /\ [][Next]_vars

\* Trace streaming: the form's login and the way to the control panel, a further
\* login command once the panel is shown, logins that succeed, the server's
\* events on the open sockets, and the webview's trace state and insights call.
NextTrace ==
    \/ \E c \in CmdIds : (view = "control-panel" /\ HandleLogin(c))
    \/ \E c \in CmdIds, tok \in Tokens : AuthResolve(c, tok)
    \/ \E c \in CmdIds : SessionResolve(c, FALSE)
    \/ \E i \in SocketIds : SocketConnect(i)
    \/ \E i \in SocketIds, ev \in ServerEvents, run \in RunPayloads : ServerEvent(i, ev, run)
    \/ UseChatTraceReceived
    \/ UseChatSessionCreated
    \/ LoginFormResponse
    \/ TimelineTimer
    \/ InsightsTimerFire
    \/ InsightsReject
    \/ InsightsResolve([total_insights |-> 1, insights |-> <<Insight1>>])
    \/ ReachControlPanel

SpecTrace == Init /\ [][NextTrace]_vars

\* The evaluation in one webview: the way to the control panel, a further login
\* and its session id, traces of the first channel, the timeline timer and the
\* insights call.
NextEval ==
    \/ ReachControlPanel
    \/ \E c \in CmdIds : (view = "control-panel" /\ HandleLogin(c))
    \/ \E c \in CmdIds : AuthResolve(c, "tokA")
    \/ \E c \in CmdIds : SessionResolve(c, FALSE)
    \/ SocketConnect(1)
    \/ ServerEvent(1, "run-completed", "track")
    \/ UseChatTraceReceived
    \/ UseChatSessionCreated
    \/ LoginFormResponse
    \/ TimelineTimer
    \/ InsightsTimerFire
    \/ InsightsReject
    \/ InsightsResolve([total_insights |-> 1, insights |-> <<Insight1>>])

SpecEval == Init /\ [][NextEval]_vars

\* C35: the evaluation starts only with traceCount > 0 and is not reset; the
\* insights call is made only with a session id and at most once for each
\* session id; a trace taken after the evaluation started, and the timeline
\* timer it re-arms, leave the evaluation, the insights timer, the calls and
\* the counters as they are.
C35_EvaluationStartsOnce ==
    /\ [](\A i, j \in 1..Len(timers.insightsFor) :
             /\ timers.insightsFor[i] # NoSession
             /\ i # j => timers.insightsFor[i] # timers.insightsFor[j])
    /\ [][ /\ (~showEvaluating /\ showEvaluating') => fixSession.traceCount > 0
           /\ showEvaluating => showEvaluating'
           /\ (showEvaluating /\ (fixSession'.traceCount > fixSession.traceCount
                                   \/ dispatch'.event = "timeline"))
                 => /\ insightsTimer' = insightsTimer
                    /\ insightsCalls' = insightsCalls
                    /\ timers' = timers ]_vars

\* Two traces taken and the timeline timer fired again after the evaluation
\* had started and its one insights call was made.
C35_Witness ==
    /\ showEvaluating
    /\ fixSession.traceCount > 1
    /\ Len(timers.insightsFor) = 1
    /\ ~insightsTimer
    /\ dispatch.event = "timeline"

\* The bearer token: the form's login, further logins and signups, and the
\* provider-connection commands AIModelsManager (view 'ai-models') sends through
\* the same ApiService.
NextAuth ==
    \/ \E c \in CmdIds : HandleLogin(c)
    \/ \E c \in CmdIds : HandleSignup(c)
    \/ \E c \in CmdIds, tok \in Tokens \cup {NoToken} : AuthResolve(c, tok)
    \/ \E c \in CmdIds, err \in ErrKinds : AuthReject(c, err)
    \/ \E c \in CmdIds : SessionResolve(c, FALSE)
    \/ \E c \in CmdIds, err \in ErrKinds : SessionReject(c, err)
    \/ (view = "ai-models" /\ HandleGetProviders)
    \/ (view = "ai-models" /\ HandleCreateIntegrationToken)
    \/ \E kind \in {"providers", "integrationToken"}, ok \in BOOLEAN : AuxSettle(kind, ok)
    \/ HostShowErrorMessage
    \/ HostUnhandledCommand
    \/ UseChatSessionCreated
    \/ LoginFormResponse
    \/ AIModelsManagerResponse
    \/ HandleInputChange("email", SampleEmail)
    \/ HandleInputChange("password", SamplePassword)
    \/ HandleSubmit
    \/ \E c \in CmdIds : ReceiveLogin(c)

SpecAuth == Init /\ [][NextAuth]_vars

\* The login form and the view: the fields typed a character at a time or
\* cleared, the form submitted, the host's login and its responses, and the
\* provider connection of view 'ai-models'.
NextForm ==
    \/ \E ch \in Chars : /\ Len(form.email) < MaxEmailLen
                          /\ HandleInputChange("email", Append(form.email, ch))
    \/ /\ Len(form.password) < MaxPasswordLen
       /\ HandleInputChange("password", Append(form.password, "p"))
    \/ \E field \in {"email", "password"} : HandleInputChange(field, <<>>)
    \/ HandleSubmit
    \/ \E c \in CmdIds : ReceiveLogin(c)
    \/ \E c \in CmdIds, tok \in {"tokA", NoToken} : AuthResolve(c, tok)
    \/ \E c \in CmdIds, err \in ErrKinds : AuthReject(c, err)
    \/ \E c \in CmdIds : SessionResolve(c, FALSE)
    \/ \E c \in CmdIds, err \in ErrKinds : SessionReject(c, err)
    \/ (view = "ai-models" /\ HandleCreateIntegrationToken)
    \/ \E ok \in BOOLEAN : AuxSettle("integrationToken", ok)
    \/ HostShowErrorMessage
    \/ HostUnhandledCommand
    \/ UseChatSessionCreated
    \/ LoginFormResponse
    \/ AIModelsManagerResponse

SpecForm == Init /\ [][NextForm]_vars

\* The provider connection: the form's login to view 'ai-models', the
\* selection of provider, model and key, Connect, and the host's
\* createIntegrationToken handler and its response.
NextConnect ==
    \/ HandleInputChange("email", SampleEmail)
    \/ HandleInputChange("password", SamplePassword)
    \/ HandleSubmit
    \/ \E c \in CmdIds : ReceiveLogin(c)
    \/ \E c \in CmdIds : AuthResolve(c, "tokA")
    \/ \E c \in CmdIds : SessionResolve(c, FALSE)
    \/ LoginFormResponse
    \/ UseChatSessionCreated
    \/ \E provider \in ProviderNames : HandleProviderChange(provider)
    \/ \E model \in Models : HandleModelSelect(model)
    \/ \E key \in ApiKeys : SetApiKey(key)
    \/ HandleConnect
    \/ ReceiveCreateIntegrationToken
    \/ \E ok \in BOOLEAN : AuxSettle("integrationToken", ok)
    \/ AIModelsManagerResponse
    \/ HostShowErrorMessage
    \/ HostUnhandledCommand

SpecConnect == Init /\ [][NextConnect]_vars

\* The webview's window: documents loaded inside VS Code and in a browser, the
\* inline script, and then the components posting through useVSCode,
\* getVSCodeApi and window.vscode on the way to the control panel and in it.
NextWindow ==
    \/ \E hasAcquire \in BOOLEAN : WebviewLoad(hasAcquire)
    \/ Bootstrap
    \/ (win.booted /\ HandleInputChange("email", SampleEmail))
    \/ (win.booted /\ HandleInputChange("password", SamplePassword))
    \/ (win.booted /\ HandleSubmit)
    \/ \E c \in CmdIds : ReceiveLogin(c)
    \/ (win.booted /\ HandleProviderChange(DefaultProvider))
    \/ (win.booted /\ HandleModelSelect("gpt-4o"))
    \/ (win.booted /\ SetApiKey("sk-1"))
    \/ (win.booted /\ HandleConnect)
    \/ ReceiveCreateIntegrationToken
    \/ \E ok \in BOOLEAN : AuxSettle("integrationToken", ok)
    \/ (win.booted /\ AIModelsManagerResponse)
    \/ (win.booted /\ HandleSubmitFeedback)
    \/ (win.booted /\ ClearChat)
    \/ HostShowErrorMessage
    \/ HostUnhandledCommand

SpecWindow == Init /\ [][NextWindow]_vars

\* C37: in one webview acquireVsCodeApi is called at most once, over the
\* inline script, useVSCode's postMessage and ControlPanel's getVSCodeApi, in
\* whatever order the components post.
C37_AcquiredAtMostOnce == win.calls <= 1

\* A webview inside VS Code in which the inline script acquired the API and
\* then useVSCode and ControlPanel have both posted.
C37_Witness ==
    /\ win.calls = 1
    /\ view = "control-panel"
    /\ dispatch.event = "feedback"
    /\ toHost # <<>> /\ toHost[Len(toHost)].command = "showErrorMessage"

\* C33: whenever AIModelsManager posts configureAI, the message carries the
\* provider, model and API key that were selected when Connect was clicked,
\* and the view becomes the control panel only in the step that takes a
\* successful createIntegrationToken response.
C33_ConfigureAICarriesSelection ==
    [][ /\ (/\ Len(toHost') = Len(toHost) + 1
            /\ toHost'[Len(toHost')].command = "configureAI")
              => toHost'[Len(toHost')].data = manager.clicked
        /\ (view # "control-panel" /\ view' = "control-panel")
              => /\ toWebview # <<>>
                 /\ Head(toWebview).command = "createIntegrationToken"
                 /\ Head(toWebview).success ]_vars

\* One webview from the login form to the control panel: its login, the session
\* and its channel, the traces, the insights call and the apply-insights call.
NextPanel ==
    \/ ReachControlPanel
    \/ \E c \in CmdIds : AuthResolve(c, "tokA")
    \/ \E c \in CmdIds : SessionResolve(c, FALSE)
    \/ \E i \in SocketIds : SocketConnect(i)
    \/ \E i \in SocketIds : ServerEvent(i, "run-completed", "track")
    \/ UseChatTraceReceived
    \/ UseChatSessionCreated
    \/ LoginFormResponse
    \/ TimelineTimer
    \/ InsightsTimerFire
    \/ InsightsReject
    \/ InsightsResolve([total_insights |-> 1, insights |-> <<Insight1>>])
    \/ \E i \in 1..MaxCmds : CounterTick(i)
    \/ \E i \in 1..MaxCmds : StreamDelayFire(i)
    \/ \E i \in 1..MaxCmds : StreamTick(i)
    \/ HandleStart
    \/ HandleFixIssues
    \/ \E ok \in BOOLEAN : ApplySettle(ok, <<>>)

SpecPanel == Init /\ [][NextPanel]_vars

\* The way to a control panel that has received a trace: the form's login, the
\* session and its channel, one run of the agent.
ReachTraces ==
    \/ ReachControlPanel
    \/ \E c \in CmdIds : AuthResolve(c, "tokA")
    \/ \E c \in CmdIds : SessionResolve(c, FALSE)
    \/ SocketConnect(1)
    \/ (fixSession.traceCount = 0 /\ toWebview = <<>> /\ ServerEvent(1, "run-completed", "track"))
    \/ UseChatTraceReceived
    \/ UseChatSessionCreated
    \/ LoginFormResponse
    \/ TimelineTimer
    \/ InsightsTimerFire

\* The evaluation of the traces: the insights call with every response, the
\* found counter, the reveal of the insights, and the steps of the panel up to
\* 'Fix Issues'.
NextReveal ==
    \/ ReachTraces
    \/ InsightsReject
    \/ \E data \in InsightsResponses : InsightsResolve(data)
    \/ \E i \in 1..MaxCmds : CounterTick(i)
    \/ \E i \in 1..MaxCmds : StreamDelayFire(i)
    \/ \E i \in 1..MaxCmds : StreamTick(i)
    \/ HandleStart
    \/ \E key \in {"start", "send", "fixes"} : SetActive(key)
    \/ HandleFixIssues
    \/ \E ok \in BOOLEAN : ApplySettle(ok, <<>>)

SpecReveal == Init /\ [][NextReveal]_vars

\* C34: after at least one trace and a successful insights response, the send
\* step comes to offer 'Fix Issues': once the response is handled and no
\* counter, delay or reveal of it is left to run, the button is available,
\* also for a response with no insights or with an empty insights list.
C34_FixIssuesAfterInsights ==
    (/\ view = "control-panel"
     /\ panel.active = "send"
     /\ fixSession.traceCount > 0
     /\ panel.evaluationComplete
     /\ insightsCalls = 0 /\ ~insightsTimer
     /\ timers.counters = <<>> /\ timers.delays = <<>> /\ timers.streams = <<>>)
        => FixIssuesShown

\* The fixes step: after the insights of one response are revealed, 'Fix
\* Issues' with every apply-insights response, the reveal of the optimization,
\* the sidebar, and the host taking the diff request.
NextFixes ==
    \/ ReachTraces
    \/ InsightsResolve([total_insights |-> 1, insights |-> <<Insight1>>])
    \/ \E i \in 1..MaxCmds : CounterTick(i)
    \/ \E i \in 1..MaxCmds : StreamDelayFire(i)
    \/ \E i \in 1..MaxCmds : StreamTick(i)
    \/ HandleStart
    \/ \E key \in {"send", "fixes"} : SetActive(key)
    \/ HandleFixIssues
    \/ \E responseData \in ApplyResponses : ApplySettle(TRUE, responseData)
    \/ ApplySettle(FALSE, <<>>)
    \/ \E i \in 1..(MaxApplyCalls + 1) : FixStreamTick(i)
    \/ \E workspace \in BOOLEAN : ReceiveDiffPromptInProject(workspace)
    \/ \E throws \in BOOLEAN : DiffOpen(throws)

SpecFixes == Init /\ [][NextFixes]_vars

\* One pass through the panel: every insights response and its reveal, 'Fix
\* Issues' pressed once, every apply-insights response and its reveal.
NextSteps ==
    \/ ReachTraces
    \/ \E data \in InsightsResponses : InsightsResolve(data)
    \/ \E i \in 1..MaxCmds : CounterTick(i)
    \/ \E i \in 1..MaxCmds : StreamDelayFire(i)
    \/ \E i \in 1..MaxCmds : StreamTick(i)
    \/ HandleStart
    \/ HandleFixIssues
    \/ \E responseData \in ApplyResponses : ApplySettle(TRUE, responseData)
    \/ ApplySettle(FALSE, <<>>)
    \/ \E i \in 1..(MaxApplyCalls + 1) : FixStreamTick(i)

SpecSteps == Init /\ [][NextSteps]_vars

\* The content providers: both diffs with vscode.diff resolving or throwing,
\* Deny closing the diff tabs, and the 30 s timeouts, each of which fires.
NextProviders ==
    \/ \E o, p \in Prompts, workspace \in BOOLEAN : HandleDiffPromptInProject(o, p, workspace)
    \/ \E throws \in BOOLEAN : DiffOpen(throws)
    \/ \E o \in Prompts, workspace \in BOOLEAN : HandleBulkReplaceTextDiff(o, workspace)
    \/ \E throws \in BOOLEAN : BulkReplaceTextDiffOpen(throws)
    \/ DenyPromptChanges
    \/ \E i \in 1..MaxDiffOps : DisposeTimerFire(i)

SpecProviders ==
    /\ Init
    /\ [][NextProviders]_vars
    /\ WF_vars(\E i \in 1..MaxDiffOps : DisposeTimerFire(i))

\* The run list: logins that succeed, their channels, the server's run-completed
\* events on every open channel, and the webview taking the traces.
NextRuns ==
    \/ \E c \in CmdIds : HandleLogin(c)
    \/ \E c \in CmdIds : AuthResolve(c, "tokA")
    \/ \E c \in CmdIds : SessionResolve(c, FALSE)
    \/ \E i \in SocketIds : SocketConnect(i)
    \/ \E i \in SocketIds, run \in RunPayloads : ServerEvent(i, "run-completed", run)
    \/ UseChatTraceReceived
    \/ UseChatSessionCreated
    \/ LoginFormResponse

SpecRuns == Init /\ [][NextRuns]_vars

\* The hook's session state in one webview: the way to the control panel,
\* traces from the host and from the hook's own socket, the socket messages,
\* and the chat cleared.
NextChat ==
    \/ ReachTraces
    \/ \E run \in RunPayloads : UseChatRunCompleted(run)
    \/ UseChatSocketConnected(SessionIdOf(1))
    \/ UseChatSocketClosed
    \/ ClearChat
    \/ HostUnhandledCommand

SpecChat == Init /\ [][NextChat]_vars

\* C36: in every state of a webview session traceCount is the length of runs,
\* and no step lowers traceCount: not clearing the chat, not a closed socket.
C36_TraceCountIsRunCount ==
    /\ [](fixSession.traceCount = Len(fixSession.runs))
    /\ [][fixSession'.traceCount >= fixSession.traceCount]_vars

\* A session with traces whose chat was cleared and whose socket was closed.
C36_Witness ==
    /\ fixSession.traceCount > 1
    /\ messages = <<>>
    /\ ~fixSession.active
    /\ dispatch.event = "socketClosed"

\* The prompt diff: diff requests, Accept and Deny, apply-change, and the user
\* editing the workspace files.
NextDiff ==
    \/ \E o, p \in Prompts, workspace \in BOOLEAN : HandleDiffPromptInProject(o, p, workspace)
    \/ \E throws \in BOOLEAN : DiffOpen(throws)
    \/ AcceptPromptChanges
    \/ \E throws \in BOOLEAN : AcceptScan(throws)
    \/ \E applied \in BOOLEAN : AcceptApply(applied)
    \/ DenyPromptChanges
    \/ \E o, p \in Prompts, workspace \in BOOLEAN :
          HandleApplyPromptChangeInProject(o, p, workspace)
    \/ \E outcome \in {"applied", "notApplied", "throws"} : ApplyChange(outcome)
    \/ \E f \in Files : EditFile(f)
    \/ PanelClosed

SpecDiff == Init /\ [][NextDiff]_vars

\* Tabs the user opens: text editors and diff editors with their own schemes.
UserTabs ==
    {EditorTab("file"), EditorTab("untitled"),
     DiffTab("git", "file", FALSE), DiffTab("file", "file", FALSE)}

\* The editor tabs: the extension's diffs, the user's tabs, and Deny.
NextTabs ==
    \/ \E o, p \in Prompts : HandleDiffPromptInProject(o, p, TRUE)
    \/ DiffOpen(FALSE)
    \/ \E o \in Prompts, workspace \in BOOLEAN : HandleBulkReplaceTextDiff(o, workspace)
    \/ \E throws \in BOOLEAN : BulkReplaceTextDiffOpen(throws)
    \/ \E tab \in UserTabs : UserOpensTab(tab)
    \/ DenyPromptChanges
    \/ \E f \in Files : EditFile(f)

SpecTabs == Init /\ [][NextTabs]_vars

\* Bulk replace: apply-change and file edits to vary the workspace, and the bulk
\* apply with every edit accepted or rejected.
NextBulk ==
    \/ \E o, p \in Prompts, workspace \in BOOLEAN :
          HandleBulkApplyTextReplace(o, p, workspace)
    \/ \E uri \in Files, applied \in BOOLEAN : BulkFile(uri, applied)
    \/ BulkDone
    \/ \E o, p \in Prompts : HandleApplyPromptChangeInProject(o, p, TRUE)
    \/ ApplyChange("applied")
    \/ \E f \in Files : EditFile(f)

SpecBulk == Init /\ [][NextBulk]_vars

\* The two ways a replacement is written into a file: apply-change, Accept and
\* the bulk apply, with replacement texts that hold a '$'.
NextReplace ==
    \/ \E o \in Prompts, p \in ReplacementTexts : HandleApplyPromptChangeInProject(o, p, TRUE)
    \/ ApplyChange("applied")
    \/ \E o \in Prompts, p \in ReplacementTexts : HandleBulkApplyTextReplace(o, p, TRUE)
    \/ \E uri \in Files : BulkFile(uri, TRUE)
    \/ BulkDone
    \/ \E o \in Prompts, p \in ReplacementTexts : HandleDiffPromptInProject(o, p, TRUE)
    \/ DiffOpen(FALSE)
    \/ AcceptPromptChanges
    \/ AcceptScan(FALSE)
    \/ AcceptApply(TRUE)

SpecReplace == Init /\ [][NextReplace]_vars

\* C38: for a file with exactly one occurrence of the search text, the single
\* apply (String.replace) and the bulk apply (split/join) write the same
\* content for every replacement text: what one of them writes is what the
\* other computes from the same file, search text and replacement.
C38_SingleAndBulkAgree ==
    [][ \A f \in Files :
          /\ (/\ dispatch'.event = "applyChange" /\ dispatch'.run = f /\ dispatch'.calls = 1
              /\ Cardinality(Occurrences(files[f].doc, ops.apply.orig)) = 1)
                => files'[f].doc = SplitJoin(files[f].doc, ops.apply.orig, ops.apply.opt)
          /\ (/\ dispatch'.event = "bulkFile" /\ dispatch'.run = f /\ dispatch'.calls = 1
              /\ Cardinality(Occurrences(files[f].doc, ops.bulk.searchText)) = 1)
                => files'[f].doc = ReplaceFirst(files[f].doc, ops.bulk.searchText,
                                                ops.bulk.replacementText) ]_vars

\* ------------------------------------------------------------------ properties
PendingTraces ==
    Cardinality({k \in 1..Len(toWebview) : toWebview[k].command = "traceReceived"})

TraceMessages == {k \in 1..Len(messages) : messages[k] # 0}

\* C1: every run-completed notification with action 'track' raises the webview's
\* trace count by exactly one and adds exactly one run and one trace message;
\* other notifications change none of them. (Counting the traces still on their
\* way to the webview, the count equals the number of 'track' notifications.)
C1_OneTracePerTrackRun ==
    /\ fixSession.traceCount + PendingTraces = trackDelivered
    /\ Len(fixSession.runs) = fixSession.traceCount
    /\ Cardinality(TraceMessages) = fixSession.traceCount

\* C2: for each of subscribed, unsubscribed, run-completed and session-updated,
\* one event from the server calls the caller's callback at most once.
C2_CallbackAtMostOnce ==
    dispatch.event \in ServerEvents => dispatch.calls <= 1

\* C3: at most one notification socket is open at any time.
C3_AtMostOneSocket ==
    Cardinality(OpenSockets) <= 1

\* C4: with a second channel opened while one is still active, a single
\* run-completed 'track' notification still posts exactly one traceReceived.
C4_OneTraceWithTwoChannels ==
    (dispatch.event = "run-completed" /\ dispatch.run = "track" /\ dispatch.nOpen >= 2)
        => dispatch.posts = 1

AuthedEndpoints ==
    { "POST /v1/codegpt/sessions", "GET /v1/codegpt/sessions/id/insights",
      "GET /providers", "POST /integration-tokens" }

\* C5: once a login or signup has returned token T, the cached header stays
\* Bearer T, and every later session, insights, providers or integration-token
\* request carries it, until a later login/signup returns another token.
C5_RequestsCarryLoginToken ==
    loginToken # NoToken =>
        /\ hostAuth = setAuthToken(loginToken)
        /\ \A k \in 1..Len(reqs) :
              reqs[k].ep \in AuthedEndpoints => reqs[k].auth = setAuthToken(loginToken)

\* C6: a socket is authenticated with the cached token whenever one is cached,
\* and with the fallback credential only when none is.
C6_SocketUsesCachedToken ==
    \A i \in 1..Len(sockets) :
        IF sockets[i].authHeader # NoAuth
        THEN setAuthToken(sockets[i].token) = sockets[i].authHeader
        ELSE sockets[i].token = HARDCODED_TOKEN

ResponseEntries(c) ==
    {i \in 1..Len(cmd[c].log) : cmd[c].log[i] \in {"respOk", "respFail"}}

\* C7: once a command's success response is posted, no failure response follows
\* it, whatever happens to session creation or the channel, and the handler
\* goes on to its end.
C7_SuccessResponseFinal ==
    \A c \in CmdIds :
        \A i \in 1..Len(cmd[c].log) :
            cmd[c].log[i] = "respOk" =>
                /\ cmd[c].pc \in {"awaitSession", "done"}
                /\ \A j \in 1..Len(cmd[c].log) : j > i => cmd[c].log[j] # "respFail"

\* C7 witness: session creation failed after the success response was posted,
\* and the handler ended with the success response as its only one.
C7_Witness ==
    \E c \in CmdIds :
        /\ cmd[c].pc = "done"
        /\ cmd[c].log = <<"respOk">>
        /\ failure = "session"

ChannelFailures == {"sessionFailed", "socketEstablishFailed", "connectError", "socketError"}

\* C8: a session-creation failure or a notification-channel failure (failure to
\* establish, connect error, socket error) is shown with warning severity.
C8_ChannelFailuresAreWarnings ==
    \A k \in 1..Len(toasts) :
        toasts[k].cause \in ChannelFailures => toasts[k].sev = "warning"

FailureToasts == {k \in 1..Len(toasts) : toasts[k].sev \in {"warning", "error"}}

\* C9: a step that meets or handles a failure shows exactly one toast for it, or
\* forwards it once to the side that shows it.
C9_EveryFailureOneToast ==
    failure # "none" => Cardinality(FailureToasts) + notices = 1

\* C10: a command gets exactly one response; sessionCreated is posted only after
\* that command's success response; the channel is opened only after
\* sessionCreated, and for the session just created.
C10_ResponseSessionChannelOrder ==
    /\ \A c \in CmdIds :
          LET log == cmd[c].log
          IN  /\ Cardinality(ResponseEntries(c)) <= 1
              /\ cmd[c].pc \in {"awaitSession", "done"} => Cardinality(ResponseEntries(c)) = 1
              /\ \A i \in 1..Len(log) :
                    log[i] = "sessionCreated" => \E j \in 1..(i - 1) : log[j] = "respOk"
              /\ \A i \in 1..Len(log) :
                    log[i] = "socketOpened" => \E j \in 1..(i - 1) : log[j] = "sessionCreated"
    /\ \A i \in 1..Len(sockets) :
          /\ sockets[i].sessionId = SessionIdOf(sockets[i].owner)
          /\ \E j \in 1..Len(cmd[sockets[i].owner].log) :
                cmd[sockets[i].owner].log[j] = "sessionCreated"

\* C10 witness: one command ran the whole chain and its socket exists, another was
\* answered with a failure.
C10_Witness ==
    \E c, d \in CmdIds :
        /\ cmd[c].log = <<"respOk", "sessionCreated", "socketOpened">>
        /\ cmd[c].pc = "done"
        /\ \E i \in 1..Len(sockets) : sockets[i].owner = c
        /\ cmd[d].log = <<"respFail">>

\* C11: every run-completed and every session-updated event received on the
\* channel is relayed to the webview as a message.
C11_EventsRelayed ==
    dispatch.event \in {"run-completed", "session-updated"} => dispatch.posts >= 1

\* C13: runs changes only by a traceReceived message being handled, which puts
\* its traceData at the end and leaves the earlier entries as they were; every
\* traceReceived handled is appended, a repeated one included.
C13_RunsAppendOnly ==
    [][ /\ fixSession'.runs # fixSession.runs =>
              /\ HeadIs({"traceReceived"})
              /\ fixSession'.runs = Append(fixSession.runs, Head(toWebview).data)
        /\ (HeadIs({"traceReceived"}) /\ toWebview' = Tail(toWebview)) =>
              fixSession'.runs = Append(fixSession.runs, Head(toWebview).data)
      ]_vars

\* C13 witness: the same run arrived twice and was kept twice, followed by a
\* later run.
C13_Witness ==
    /\ Len(fixSession.runs) >= 3
    /\ fixSession.runs[1] = fixSession.runs[2]
    /\ fixSession.runs[3].id > fixSession.runs[2].id

LoginsPosted == {k \in 1..Len(toHost) : toHost[k].command = "login"}

SuccessResponded ==
    \E c \in CmdIds : \E i \in 1..Len(cmd[c].log) : cmd[c].log[i] = "respOk"

\* C14: after a valid submit the form stays in the submitting state until the
\* host's loginResponse arrives, and the view leaves 'auth' only on a response
\* with success = true.
C14_SubmittingUntilResponse ==
    /\ LoginsPosted # {} => (form.isLoading /\ view = "auth")
    /\ view # "auth" => SuccessResponded

\* C15: the login command is posted only for a non-empty email matching the
\* pattern (u@u.u accepted; u@, uu.u and the empty text rejected) and a password
\* of at least 6 characters (5 rejected, 6 accepted); a submit of an invalid
\* form posts nothing and does not enter the submitting state.
C15_LoginOnlyWhenValid ==
    /\ validateForm(SampleEmail, SamplePassword) = {}
    /\ "email" \in validateForm(<<"u", "@">>, SamplePassword)
    /\ "email" \in validateForm(<<"u", "u", ".", "u">>, SamplePassword)
    /\ "email" \in validateForm(<<>>, SamplePassword)
    /\ "password" \in validateForm(SampleEmail, SubSeq(SamplePassword, 1, MinPasswordLength - 1))
    /\ \A k \in LoginsPosted :
          /\ toHost[k].data[1] # <<>>
          /\ EmailPattern(toHost[k].data[1])
          /\ Len(toHost[k].data[2]) >= MinPasswordLength
    /\ (dispatch.event = "submit" /\ form.errors # {}) =>
          /\ dispatch.posts = 0
          /\ ~form.isLoading
          /\ view = "auth"

C15_Witness ==
    /\ dispatch.event = "submit"
    /\ dispatch.posts = 1
    /\ Len(toHost[Len(toHost)].data[2]) = MinPasswordLength
    /\ toHost[Len(toHost)].data[1] # SampleEmail

\* C16: the view only moves auth -> ai-models -> control-panel, never backward,
\* and the control panel is entered only from 'ai-models', on the response of a
\* successful provider connection.
C16_ViewOnlyForward ==
    [][ view' # view =>
          \/ view = "auth" /\ view' = "ai-models"
          \/ /\ view = "ai-models" /\ view' = "control-panel"
             /\ HeadIs({"createIntegrationToken"})
             /\ Head(toWebview).success
      ]_vars

C16_Witness ==
    view = "control-panel"

SessionRequests == {k \in 1..Len(reqs) : "sid" \in DOMAIN reqs[k]}

C17_OneAffordance ==
    /\ statusBar <= 1
    /\ statusBar = 1 <=> diffSession = "open"

C17_Witness ==
    /\ dispatch.event = "diffOpen"
    /\ dispatch.nOpen = 1
    /\ statusBar = 1

\* C18: Accept invoked while no diff session is open (none opened yet, or the
\* last one accepted or denied) shows an error, edits no file and starts no
\* search.
C18_AcceptWithoutSession ==
    [][ (dispatch'.event = "accept" /\ diffSession # "open") =>
            /\ toasts' = <<Toast("error", "noChanges")>>
            /\ files' = files
            /\ ops' = ops
      ]_vars

C18_Witness ==
    /\ dispatch.event = "accept"
    /\ diffSession = "accepted"
    /\ toasts = <<Toast("error", "noChanges")>>

\* C19: when Accept's search runs and no workspace file contains the stored
\* original prompt, Accept shows an error, edits no file and ends.
C19_AcceptPromptNotFound ==
    [][ ( /\ dispatch'.event = "acceptScan"
          /\ stored.original # NoPrompt
          /\ \A f \in Files : ~Includes(files[f].doc, stored.original) ) =>
            /\ Len(toasts') = 1
            /\ toasts'[1].sev = "error"
            /\ files' = files
            /\ ops'.accept = IdleOp
      ]_vars

C19_Witness ==
    /\ dispatch.event = "acceptScan"
    /\ toasts = <<Toast("error", "notFound")>>
    /\ diffSession = "open"
    /\ stored.original # NoPrompt
    /\ \A f \in Files : ~Includes(files[f].doc, stored.original)

\* C20: when Accept or apply-change reports success, the target file's text is
\* its former text with the first occurrence of the original prompt replaced by
\* the optimized one, the edit was applied, and the file on disk has that text.
C20_SuccessMeansAppliedAndSaved ==
    [][ /\ (dispatch'.event = "acceptApply" /\ toasts' = <<Toast("info", "accepted")>>) =>
              LET t == ops.accept.target
              IN  /\ dispatch'.calls = 1
                  /\ files'[t].doc = ReplaceFirst(files[t].doc, SearchText(stored.original),
                                                  SearchText(stored.optimized))
                  /\ files'[t].disk = files'[t].doc
        /\ (dispatch'.event = "applyChange" /\ toasts' = <<Toast("info", "applied")>>) =>
              LET t == dispatch'.run
              IN  /\ dispatch'.calls = 1
                  /\ files'[t].doc = ReplaceFirst(files[t].doc, ops.apply.orig, ops.apply.opt)
                  /\ files'[t].disk = files'[t].doc
      ]_vars

C22_SessionDestroyed ==
    dispatch.event \in {"acceptApply", "deny", "panelClosed"} =>
        /\ statusBar = 0
        /\ stored = NoStored

\* C23: no step closes a tab other than a diff tab this extension opened: the
\* user's text editors and the user's own diff tabs stay open through Deny.
C23_DenyClosesOwnDiffsOnly ==
    [][ \A tab \in tabs \ tabs' : tab.input = "diff" /\ tab.mine ]_vars

C23_Witness ==
    /\ dispatch.event = "deny"
    /\ dispatch.calls >= 1
    /\ EditorTab("file") \in tabs
    /\ DiffTab("git", "file", FALSE) \in tabs
    /\ DiffTab("file", "file", FALSE) \in tabs

\* C24: whenever the Fix Issues button is shown, a trace has been received and
\* the reveal of the insights has run to its end: a reveal was started, no
\* reveal interval is running, and the whole text is visible.
C24_FixIssuesAfterReveal ==
    FixIssuesShown =>
        /\ fixSession.traceCount > 0
        /\ timers.started # <<>>
        /\ timers.streams = <<>>
        /\ panel.streamingText = timers.started

C24_Witness ==
    /\ dispatch.event = "fixIssues"
    /\ panel.active = "fixes"
    /\ Len(timers.started) > 4
    /\ panel.streamingText = timers.started

\* C25: for a response with total_insights = n > 0, every tick of the counter
\* raises the found counter by one, from 1 up to n and never beyond, and the
\* reveal of the insights starts only when the counter shows n.
C25_CounterThenReveal ==
    [][ /\ dispatch'.event = "insights" /\ dispatch'.calls > 0 => panel'.foundCount = 0
        /\ dispatch'.event = "counterTick" =>
              /\ panel'.foundCount = panel.foundCount + 1
              /\ panel'.foundCount <= dispatch'.nOpen
        /\ dispatch'.event = "streamStart" =>
              /\ panel.foundCount = dispatch'.nOpen
              /\ panel.evaluationComplete
        /\ timers'.streams # <<>> => panel'.foundCount >= 1
      ]_vars

C25_Witness ==
    /\ dispatch.event = "streamStart"
    /\ dispatch.nOpen = MaxInsights
    /\ panel.foundCount = MaxInsights
    /\ timers.streams # <<>>

C27_OneRevealAtATime ==
    /\ Len(timers.streams) <= 1
    /\ Len(timers.fixStreams) <= 1
    /\ \E k \in 0..Len(timers.started) :
          panel.streamingText = SubSeq(timers.started, 1, k)
    /\ \E k \in 0..Len(timers.fixStarted) :
          panel.applyFixesStreamingText = marked(SubSeq(timers.fixStarted, 1, k))

\* C28: an apply-insights response that arrives when the user is no longer on
\* step 'fixes' is discarded: apart from ending 'Processing...', the panel's
\* state and its intervals stay as they are and nothing is posted to the host.
C28_StaleResponseDiscarded ==
    [][ (dispatch'.event = "applySettle" /\ panel.active # "fixes") =>
            /\ [panel' EXCEPT !.showApplyFixesProcessing = panel.showApplyFixesProcessing]
                  = panel
            /\ timers' = timers
            /\ toHost' = toHost
      ]_vars

\* C29: the step that meets a failed insights or apply-insights call sends no
\* request of its own, and leaves the panel where the user can start the call
\* again: after a failed apply-insights 'Fix Issues' is offered again in step
\* 'send'; after a failed insights call the effect that issues it can run again
\* (its timer is set, or the evaluation has not been entered).
C29_RetryAfterFailure ==
    /\ failure \in {"insights", "apply"} => reqs = <<>> /\ view = "control-panel"
    /\ failure = "apply" =>
          /\ fixSession.traceCount > 0
          /\ streamingComplete
          /\ ~panel.showApplyFixesProcessing
    /\ failure = "insights" => (insightsTimer \/ ~showEvaluating)

\* C30: in step 'fixes' the reveal starts out of 'Processing...', the complete
\* mark follows the reveal, and the diff of the prompts is requested from the
\* host only when the reveal of the optimization is complete.
C30_DiffAfterReveal ==
    [][ /\ (panel'.showApplyFixesStreaming /\ ~panel.showApplyFixesStreaming) =>
              panel.showApplyFixesProcessing /\ ~panel'.showApplyFixesProcessing
        /\ (panel'.applyFixesStreamingComplete /\ ~panel.applyFixesStreamingComplete) =>
              panel.showApplyFixesStreaming
        /\ (/\ Len(toHost') > Len(toHost)
            /\ toHost'[Len(toHost')].command = "diffPromptInProject") =>
              /\ panel'.applyFixesStreamingComplete
              /\ timers'.fixStreams = <<>>
      ]_vars

\* C31: every content provider registered for a diff has its dispose timeout
\* set, whether vscode.diff resolved or threw, and in the end every one of them
\* is disposed, the diff tab open or not.
C31_ProvidersDisposed ==
    /\ [](\A i \in 1..Len(ops.registrations) : ops.registrations[i].timer)
    /\ <>[](ops.registrations = <<>>)

C31_Witness ==
    /\ dispatch.event = "dispose"
    /\ dispatch.run = "handit-optimized"
    /\ DiffTab("file", "handit-optimized", TRUE) \in tabs
    /\ ops.registrations = <<>>
    /\ opCount = MaxDiffOps

\* C32: an Accept that edits a file edits the file of the stored diff uri, the
\* left side of the open diff, and leaves every other workspace file as it was.
C32_AcceptEditsDiffedFileOnly ==
    [][ (dispatch'.event = "acceptApply" /\ files' # files) =>
            /\ dispatch'.run = stored.diffUri
            /\ \A f \in Files \ {stored.diffUri} : files'[f] = files[f]
      ]_vars

====
